---- MODULE Spec2Model ----
(***************************************************************************)
(* Job dispatch and execution engine of the org-job worker: the Redis      *)
(* pub/sub jobs channel (server/routes/api.js publishJob, the worker's     *)
(* startWorker/handleJobMessage) and the two job handlers                  *)
(* (server/services/data.js, server/services/quote.js).                    *)
(*                                                                         *)
(* Granularity: JavaScript runs a callback to its next await without       *)
(* interruption, so one action is one such run: the delivery of a message  *)
(* (handleJobMessage up to the first await of the handler it calls) or the *)
(* arrival of the reply to the call a job is suspended on (the handler up  *)
(* to its next await).  The record store, the clock and Math.random are    *)
(* the environment: their answers are drawn with \E from the pools of the  *)
(* variable env, which Init fixes.                                         *)
(***************************************************************************)
EXTENDS Naturals, Integers, Sequences, FiniteSets, TLC

VARIABLES
    env,        \* the scenario: workers deployed, publishers' script, the store's possible answers
    pending,    \* the part of the script not yet published
    wstate,     \* worker process -> "starting" | "subscribed" | "exited"
    inbox,      \* worker process -> messages sent to its subscription, not yet emitted
    published,  \* history of channel publications: the text and who was subscribed then
    nextId,     \* source of crypto.randomUUID(): next unused job id
    jobs        \* one record per invocation of handleJobMessage, in delivery order

vars == <<env, pending, wstate, inbox, published, nextId, jobs>>

----------------------------------------------------------------------------
(* Bounds of the model *)

\* largest count a data/create envelope carries
MaxCount == 2
\* most records a query page or a result fetch returns
MaxRecords == 2
\* most pages one query result spans
MaxPages == 2
\* most invocations of one scenario
MaxJobs == 2

----------------------------------------------------------------------------
(* Program constants *)

BULK_API_POLL_INTERVAL == 5000
MAX_DELETE_QUERY == 5000
BULK_API_TIMEOUT == 300000
FIXED_OLI_COUNT == 2
DefaultCount == 10

None == "none"
AllWorkers == {"w1", "w2"}

----------------------------------------------------------------------------
(* Message texts.  A text is what JSON.parse makes of it:                  *)
(*   kind "garbage": not JSON;  "null": the JSON value null;               *)
(*   "scalar": a JSON number, string, boolean or array (destructuring it   *)
(*   yields undefined for every field);  "object": a JSON object.          *)
(* A context records whether context and context.org are there and the     *)
(* fields of the org; a field that is absent, null or empty is None.       *)
(* jobId 0 is an absent jobId; count is <<>> when absent, else <<n>>.      *)

OrgFields == {"accessToken", "apiVersion", "namespace", "id", "domainUrl", "user"}

FullContext(t) ==
    [present |-> TRUE, org |-> TRUE,
     accessToken |-> t, apiVersion |-> "v", namespace |-> "ns",
     id |-> t, domainUrl |-> t, user |-> t]

Without(ctx, f) == [ctx EXCEPT ![f] = None]

\* { org: undefined }: a context without org
NoOrg ==
    [present |-> TRUE, org |-> FALSE,
     accessToken |-> None, apiVersion |-> None, namespace |-> None,
     id |-> None, domainUrl |-> None, user |-> None]

\* no context at all
NoContext == [NoOrg EXCEPT !.present = FALSE]

\* no client
NoClient == NoContext @@ [apis |-> FALSE]

Text(kind, jobId, jobType, context, operation, count, soql) ==
    [kind |-> kind, jobId |-> jobId, jobType |-> jobType, context |-> context,
     operation |-> operation, count |-> count, soqlWhereClause |-> soql]

Garbage == Text("garbage", 0, None, NoContext, None, <<>>, None)
JsonNull == Text("null", 0, None, NoContext, None, <<>>, None)
JsonScalar == Text("scalar", 0, None, NoContext, None, <<>>, None)

Envelope(jobId, jobType, context, operation, count, soql) ==
    Text("object", jobId, jobType, context, operation, count, soql)

----------------------------------------------------------------------------
(* Job records *)

\* pub: which publication the delivery belongs to (its place in `published`)
NewJob(w, msg, pub) ==
    [w |-> w, msg |-> msg, pub |-> pub, pc |-> "start", client |-> NoClient,
     handler |-> None, log |-> {}, calls |-> <<>>, replies |-> <<>>,
     \* handleDataMessage / pollBulkJobStatus locals
     count |-> 0, pbes |-> <<>>, stage |-> None, ref |-> 0, elapsed |-> 0,
     lastState |-> None, processed |-> 0, failed |-> 0, oppIds |-> <<>>,
     errorMessage |-> None, oppJobInfo |-> <<>>, pollLog |-> <<>>, pollError |-> <<>>,
     \* handleQuoteMessage locals
     pages |-> <<>>, pricebook |-> None, uow |-> <<>>, quoteRefs |-> <<>>,
     commitResult |-> <<>>, fetched |-> <<>>, matched |-> 0,
     unit |-> [w |-> None, pub |-> 0], units |-> 0,
     successCount |-> 0, failureCount |-> 0]

JobIds == 1..Len(jobs)

\* A store call as the store sees it: the operation, the credential of the
\* client it was made through, and its argument.
Call(op, cred, arg) == [op |-> op, cred |-> cred, arg |-> arg]

\* the argument of a store call: a query text, a bulk table or a job reference
Arg(text, object, operation, columns, rows, ref) ==
    [text |-> text, object |-> object, operation |-> operation,
     columns |-> columns, rows |-> rows, ref |-> ref]

QueryArg(text) == Arg(text, None, None, <<>>, <<>>, 0)
TableArg(object, operation, columns, rows) == Arg(None, object, operation, columns, rows, 0)
RefArg(ref) == Arg(None, None, None, <<>>, <<>>, ref)
UowArg(uow) == Arg(None, "UnitOfWork", None, <<>>, uow, 0)

Logged(b, tag) == [b EXCEPT !.log = @ \cup {tag}]

IsCommit(call) == call.op = "commitUnitOfWork"

\* what the store answered to the call the job was suspended on, in short:
\* replies[n] is the answer to calls[n]
Got(b, answer) == [b EXCEPT !.replies = Append(@, answer)]

\* a handler (or the dispatcher) returns: the invocation is over
Returned(b) == [b EXCEPT !.pc = "done"]

----------------------------------------------------------------------------
(* The channel: Redis PUBLISH hands the text to every connection that is   *)
(* subscribed at that moment and keeps nothing.                            *)

\* variant: a work queue, one subscriber takes the text
OneReceiver ==
    LET subs == {w \in env.workers : wstate[w] = "subscribed"}
    IN  IF subs = {} THEN {} ELSE {CHOOSE w \in subs : TRUE}

\* variant: the text is kept for workers still starting
ReceiversOnceStarted == {w \in env.workers : wstate[w] # "exited"}

Receivers == {w \in env.workers : wstate[w] = "subscribed"}

Broadcast(msg, req) ==
    /\ inbox' = [w \in env.workers |->
                    IF w \in Receivers
                    THEN Append(inbox[w], [msg |-> msg, pub |-> Len(published) + 1])
                    ELSE inbox[w]]
    /\ published' = Append(published,
                        [msg |-> msg, req |-> req,
                         subscribed |-> {w \in env.workers : wstate[w] = "subscribed"}])

\* what parseInt returns: NaN or an integer
NaN == [nan |-> TRUE, v |-> 0]
Num(v) == [nan |-> FALSE, v |-> v]

DecimalDigits == <<"0", "1", "2", "3", "4", "5", "6", "7", "8", "9">>
IsDigit(ch) == \E d \in 1..Len(DecimalDigits) : DecimalDigits[d] = ch
DigitValue(ch) == (CHOOSE d \in 1..Len(DecimalDigits) : DecimalDigits[d] = ch) - 1

RECURSIVE Trimmed(_)
\* the characters after the leading white space
Trimmed(chars) ==
    IF chars # <<>> /\ Head(chars) = " " THEN Trimmed(Tail(chars)) ELSE chars

RECURSIVE LeadingDigits(_)
\* the longest prefix of decimal digits
LeadingDigits(chars) ==
    IF chars # <<>> /\ IsDigit(Head(chars))
    THEN <<Head(chars)>> \o LeadingDigits(Tail(chars))
    ELSE <<>>

RECURSIVE ValueOf(_)
\* the number a sequence of decimal digits writes
ValueOf(ds) ==
    IF ds = <<>> THEN 0
    ELSE 10 * ValueOf(SubSeq(ds, 1, Len(ds) - 1)) + DigitValue(ds[Len(ds)])

\* parseInt(request.query?.numberOfOpportunities, 10): raw is <<>> for a
\* parameter that is not there, else <<chars>>, the characters of its value.
\* White space is skipped, a sign is taken, then the digits up to the first
\* character that is none; NaN when there is no digit.
parseInt(raw) ==
    IF raw = <<>> THEN NaN
    ELSE LET t == Trimmed(raw[1])
             signed == t # <<>> /\ Head(t) \in {"-", "+"}
             ds == LeadingDigits(IF signed THEN Tail(t) ELSE t)
             v == ValueOf(ds)
         IN  IF ds = <<>> THEN NaN
             ELSE Num(IF Head(t) = "-" THEN 0 - v ELSE v)

\* variant: a count of zero is let through
RequestedCountAllowsZero(n) == IF ~n.nan /\ n.v >= 0 THEN n.v ELSE DefaultCount

\* routes/api.js: the count a /data/create request publishes
\* (n is what parseInt made of the query parameter: NaN or an integer)
RequestedCount(n) == IF ~n.nan /\ n.v >= 1 THEN n.v ELSE DefaultCount

\* routes/api.js: the payload each route hands to publishJob
Payload(req, jobId) ==
    CASE req.route = "executebatch" ->
            Envelope(jobId, "quote", req.context, None, <<>>, req.soql)
      [] req.route = "datacreate" ->
            Envelope(jobId, "data", req.context, "create",
                     <<RequestedCount(parseInt(req.n))>>, None)
      [] req.route = "datadelete" ->
            Envelope(jobId, "data", req.context, "delete", <<>>, None)

\* routes/api.js publishJob: 401 without a context, else a fresh jobId and a
\* PUBLISH, which may fail (500) and then publishes nothing.
PublishJob(item) ==
    /\ item \in pending
    /\ item.via = "api"
    /\ pending' = pending \ {item}
    /\ IF item.req.context.present
       THEN /\ nextId' = nextId + 1
            /\ \/ Broadcast(Payload(item.req, nextId), item.req)
               \/ UNCHANGED <<inbox, published>>
       ELSE UNCHANGED <<nextId, inbox, published>>
    /\ UNCHANGED <<env, wstate, jobs>>

\* Any other Redis client publishing a text on jobsChannel (the channel is
\* not private to publishJob); it can repeat a text published before.
ChannelPublish(item) ==
    /\ item \in pending
    /\ item.via = "raw"
    /\ pending' = pending \ {item}
    /\ Broadcast(item.text, item.req)
    /\ UNCHANGED <<env, wstate, nextId, jobs>>

\* worker startWorker: redis ready, SUBSCRIBE acknowledged, listener attached
Subscribe(w) ==
    /\ wstate[w] = "starting"
    /\ wstate' = [wstate EXCEPT ![w] = "subscribed"]
    /\ UNCHANGED <<env, pending, inbox, published, nextId, jobs>>

\* worker startWorker: connection timeout or subscribe error, process.exit(1)
StartupFailure(w) ==
    /\ wstate[w] = "starting"
    /\ wstate' = [wstate EXCEPT ![w] = "exited"]
    /\ UNCHANGED <<env, pending, inbox, published, nextId, jobs>>

----------------------------------------------------------------------------
(* Dispatcher: handleJobMessage *)

\* variant: a parse failure is not noticed
ParseAlwaysOk(msg) == TRUE

\* JSON.parse(message) succeeds
ParseOk(msg) == msg.kind # "garbage"

\* const { jobId, context, jobType } = jobData  throws a TypeError for null
DestructureOk(msg) == msg.kind # "null"

\* variant: the base URL is not checked
ContextOkWithoutUrl(ctx) ==
    /\ ctx.present
    /\ ctx.org
    /\ ctx.accessToken # None

\* the check of line 31: context, context.org, accessToken and domainUrl
ContextOk(ctx) ==
    /\ ctx.present
    /\ ctx.org
    /\ ctx.accessToken # None
    /\ ctx.domainUrl # None

\* new ContextImpl(...): the client carries the fields of the envelope's org;
\* apis says whether the SDK gave it org.dataApi and org.bulkApi
ContextImpl(ctx) == [f \in OrgFields \cup {"present", "org"} |-> ctx[f]] @@ [apis |-> env.apis]


\* variant: one module-level client, overwritten by each delivery
ClientShared(js, j) ==
    LET ks == {k \in 1..Len(js) : js[k].w = js[j].w /\ js[k].client.present}
    IN  js[CHOOSE k \in ks : \A m \in ks : m <= k].client

\* the client a job's store calls go through: the sfContext it was handed
ClientFor(js, j) == js[j].client

\* variant: the catch logs and rethrows
DispatcherCatchRethrows(b) == [Logged(b, "handlerError") EXCEPT !.pc = "rejected"]

\* the catch of handleJobMessage: log, do not rethrow
DispatcherCatch(b) == Returned(Logged(b, "handlerError"))

\* the catch blocks at the end of handleDataMessage and handleQuoteMessage
HandlerCatch(b, tag) == Returned(Logged(b, tag))

\* a store call issued by job record b through the client with credential c
Issue(b, c, op, arg, pc) ==
    [b EXCEPT !.calls = Append(@, Call(op, c, arg)), !.pc = pc]

----------------------------------------------------------------------------
(* services/data.js: data generation                                       *)

RECURSIVE Digits(_)
\* the decimal digits of n, as String(n) writes them
DigitChar(d) == <<"0", "1", "2", "3", "4", "5", "6", "7", "8", "9">>[d + 1]

Digits(n) ==
    IF n < 10 THEN <<DigitChar(n)>> ELSE Append(Digits(n \div 10), DigitChar(n % 10))

\* `Sample Opp ${Date.now()}-${i}`
OppName(ts, i) == <<"Sample Opp ">> \o Digits(ts) \o <<"-">> \o Digits(i)

\* Date.now() at iteration i of one generation loop: the clock reads env.now
\* and ticks over to the next millisecond at iteration k (never, if k is
\* beyond the loop)
ClockAt(k, i) == IF i >= k THEN env.now + 1 ELSE env.now

\* variant: the name carries the clock reading only
generateSampleOpportunitiesNoIndex(count, accountId, pricebookId, k) ==
    [n \in 1..count |->
        [Name |-> <<"Sample Opp ">> \o Digits(ClockAt(k, n - 1)),
         AccountId |-> accountId,
         StageName |-> "Prospecting",
         CloseDate |-> ClockAt(k, n - 1) + 30,
         Pricebook2Id |-> pricebookId]]

\* generateSampleOpportunities(count, accountId, pricebookId), its clock
\* ticking over at iteration k
generateSampleOpportunities(count, accountId, pricebookId, k) ==
    [n \in 1..count |->
        [Name |-> OppName(ClockAt(k, n - 1), n - 1),
         AccountId |-> accountId,
         StageName |-> "Prospecting",
         CloseDate |-> ClockAt(k, n - 1) + 30,
         Pricebook2Id |-> pricebookId]]

OppColumns == <<"Name", "AccountId", "StageName", "CloseDate", "Pricebook2Id">>
OliColumns == <<"OpportunityId", "PricebookEntryId", "Product2Id", "Quantity", "UnitPrice">>

\* Object.keys(rows[0] || {})
ColumnsOf(rows, columns) == IF Len(rows) = 0 THEN <<>> ELSE columns

\* a catalog entry [Id, Product2Id] as the PricebookEntry query returns it;
\* 0 is a field that is missing
ValidPbe(pbe) == pbe.Id # 0 /\ pbe.Product2Id # 0

\* the test of the entry picked for a row: pbe && pbe.Id && pbe.Product2Id
PickedValid(oli) == oli.PricebookEntryId # 0 /\ oli.Product2Id # 0

\* generateSampleOLIs(createdOppIds, pricebookEntries): FIXED_OLI_COUNT rows
\* per id, in id order, less the rows whose picked entry is not valid;
\* pick[n] is the index Math.random chose for row n, qty and price the
\* random Quantity and UnitPrice
generateSampleOLIs(createdOppIds, pricebookEntries, pick, qty, price) ==
    IF Len(createdOppIds) = 0 \/ Len(pricebookEntries) = 0 THEN <<>>
    ELSE SelectSeq(
            [n \in 1..(FIXED_OLI_COUNT * Len(createdOppIds)) |->
                [OpportunityId |-> createdOppIds[((n - 1) \div FIXED_OLI_COUNT) + 1],
                 PricebookEntryId |-> pricebookEntries[pick[n]].Id,
                 Product2Id |-> pricebookEntries[pick[n]].Product2Id,
                 Quantity |-> qty,
                 UnitPrice |-> price]],
            PickedValid)

----------------------------------------------------------------------------
(* services/data.js: pollBulkJobStatus and handleDataMessage, cut at their *)
(* awaits.  b is the job's record, c the credential of the client its      *)
(* calls go through; each operator is the run from one await to the next.  *)

Min(a, b) == IF a < b THEN a ELSE b

\* Date.now() - startTime after d more milliseconds (all values at or past
\* the timeout behave alike)
Later(elapsed, d) == Min(elapsed + d, BULK_API_TIMEOUT)

\* The texts pollBulkJobStatus logs and throws, as the pieces of their
\* template strings.
UndefinedText(ref) == <<"bulkApi.getInfo(">> \o Digits(ref) \o <<") returned undefined.">>
FailedLogText(ref, state, errorMessage) ==
    <<"Job ">> \o Digits(ref) \o
    <<" failed or was aborted. State: ", state, ", Message: ", errorMessage>>
FailedErrorText(ref, state) ==
    <<"Bulk API Job ">> \o Digits(ref) \o <<" failed or aborted: ", state>>
TimeoutLogText(ref, lastState) ==
    <<"Timeout polling job ">> \o Digits(ref) \o <<". Last state: ", lastState>>
TimeoutErrorText(ref) == <<"Timeout polling Bulk API Job ">> \o Digits(ref)

\* logger.error of pollBulkJobStatus
PollLogged(b, text) == [b EXCEPT !.pollLog = Append(@, text)]

\* pollBulkJobStatus throws err to handleDataMessage, whose catch logs it
PollThrows(b, err) == HandlerCatch([b EXCEPT !.pollError = <<err>>], "dataError")

\* variant: the loop has no budget
PollLoopNoTimeout(b, c) == Issue(b, c, "getInfo", RefArg(b.ref), "poll")

\* variant: the budget running out ends the poll without an error
PollLoopTimeoutReturns(b, c) ==
    IF b.elapsed < BULK_API_TIMEOUT
    THEN Issue(b, c, "getInfo", RefArg(b.ref), "poll")
    ELSE Returned(Logged(PollLogged(b, TimeoutLogText(b.ref, b.lastState)), "pollTimeout"))

\* variant: the budget running out is taken for completion
PollLoopTimeoutHarvests(b, c) ==
    IF b.elapsed < BULK_API_TIMEOUT
    THEN Issue(b, c, "getInfo", RefArg(b.ref), "poll")
    ELSE Issue(b, c, "getFailedResults", RefArg(b.ref), "failedResults")

\* pollBulkJobStatus: the loop condition, then either the next getInfo or
\* the timeout error, which handleDataMessage's catch receives
PollLoop(b, c) ==
    IF b.elapsed < BULK_API_TIMEOUT
    THEN Issue(b, c, "getInfo", RefArg(b.ref), "poll")
    ELSE PollThrows(Logged(PollLogged(b, TimeoutLogText(b.ref, b.lastState)), "pollTimeout"),
                    TimeoutErrorText(b.ref))

\* pollBulkJobStatus(jobReference, ...): startTime = Date.now(), first pass
StartPoll(b, c, ref) == PollLoop([b EXCEPT !.ref = ref, !.elapsed = 0, !.lastState = None], c)

\* the setTimeout of the poll loop has fired
AfterSleep(b, c) == PollLoop([b EXCEPT !.elapsed = Later(@, BULK_API_POLL_INTERVAL)], c)

\* bulkApi.ingest of the table of the given stage
Submit(b, c, stage, object, operation, columns, rows) ==
    Issue([b EXCEPT !.stage = stage], c, "ingest",
          TableArg(object, operation, columns, rows), "ingest")

\* handleDataMessage up to its first await: the check that the client has
\* its APIs, then create starts with the Account query and delete with the
\* candidate query
StartData(b, c) ==
    LET b1 == [b EXCEPT !.handler = "data",
                        !.count = IF b.msg.count = <<>> THEN DefaultCount ELSE b.msg.count[1]]
    IN  CASE ~b.client.apis -> Returned(Logged(b1, "invalidContext"))
          [] b.msg.operation = "create" ->
                Issue(b1, c, "query", QueryArg("Account"), "qAccount")
          [] b.msg.operation = "delete" ->
                Issue(b1, c, "query", QueryArg("SampleOpps"), "qDelete")
          [] OTHER -> Returned(Logged(b1, "unknownOperation"))

\* reply of the Account query: r is "throw", "none" or "one"
AfterAccount(b, c, r) ==
    IF r = "one"
    THEN Issue(b, c, "query", QueryArg("Pricebook2"), "qPricebook")
    ELSE HandlerCatch(Logged(b, IF r = "throw" THEN "queryError" ELSE "noAccount"), "dataError")

\* variant: the entries are asked for whatever the pricebook query gave
AfterPricebookContinues(b, c, r) ==
    Issue(b, c, "query", QueryArg("PricebookEntry"), "qPbe")

\* reply of the standard pricebook query
AfterPricebook(b, c, r) ==
    IF r = "one"
    THEN Issue(b, c, "query", QueryArg("PricebookEntry"), "qPbe")
    ELSE HandlerCatch(b, "dataError")

\* variant: the entries are used as they come
UsableAny(records) == records

\* pbes.records.map(pbe => pbe?.fields).filter(pbe => pbe && pbe.Id && pbe.Product2Id)
Usable(records) == SelectSeq(records, ValidPbe)

\* reply of the PricebookEntry query, r.records its entries; then the parent
\* table is generated and submitted
AfterPbe(b, c, r, k) ==
    IF r.throw \/ Len(r.records) = 0 \/ Len(Usable(r.records)) = 0
    THEN HandlerCatch(b, "dataError")
    ELSE LET oppsToCreate == generateSampleOpportunities(b.count, "acc", "pb", k)
         IN  Submit([b EXCEPT !.pbes = Usable(r.records)], c, "opp", "Opportunity", "insert",
                    ColumnsOf(oppsToCreate, OppColumns), oppsToCreate)

\* variant: whatever the submission answered is polled
AfterIngestPollsAnyway(b, c, r, ref) ==
    IF r = "throw" THEN HandlerCatch(b, "dataError") ELSE StartPoll(b, c, ref)

\* reply of bulkApi.ingest: r is "throw", "error", "ref" or "unexpected";
\* the reference of the bulk job is named after the job and its stage
AfterIngest(b, c, r, ref) ==
    CASE r = "ref" -> StartPoll(b, c, ref)
      [] r = "throw" -> HandlerCatch(b, "dataError")
      [] b.stage = "oli" -> Returned(Logged(Logged(b, "oliSubmitFailed"), "completed"))
      [] OTHER -> HandlerCatch(Logged(b, "ingestFailed"), "dataError")

\* variant: only a parent job that processed nothing stops the job
AfterHarvestProcessedOnly(b, c) ==
    IF b.stage = "opp"
    THEN IF b.processed = 0
         THEN Returned(Logged(b, "noOppsCreated"))
         ELSE Issue(b, c, "getSuccessfulResults", RefArg(b.ref), "successResults")
    ELSE Returned(Logged(b, "completed"))

\* after pollBulkJobStatus returned and the failed rows were looked at
AfterHarvest(b, c) ==
    IF b.stage = "opp"
    THEN IF b.processed = 0 \/ b.processed = b.failed
         THEN Returned(Logged(b, "noOppsCreated"))
         ELSE Issue(b, c, "getSuccessfulResults", RefArg(b.ref), "successResults")
    ELSE Returned(Logged(b, "completed"))

\* pollBulkJobStatus returned jobInfo to handleDataMessage, which keeps the
\* parent's as oppJobInfo
AfterComplete(b, c) ==
    LET b1 == IF b.stage = "opp"
              THEN [b EXCEPT !.oppJobInfo = <<[state |-> b.lastState,
                                               numberRecordsProcessed |-> b.processed,
                                               numberRecordsFailed |-> b.failed]>>]
              ELSE b
    IN  IF b.failed > 0
        THEN Issue(b1, c, "getFailedResults", RefArg(b.ref), "failedResults")
        ELSE AfterHarvest(b1, c)

\* variant: a job still in progress counts as complete
PollCompleteOrInProgress(state) == state \in {"JobComplete", "InProgress"}

\* jobInfo.state === 'JobComplete'
PollComplete(state) == state = "JobComplete"

\* variant: only Failed is looked for
PollFailedOnly(state) == state = "Failed"

\* jobInfo.state === 'Failed' || jobInfo.state === 'Aborted'
PollFailed(state) == state \in {"Failed", "Aborted"}

\* variant: the catch logs the error without the reference of the bulk job
PollCatchUntagged(b, err) ==
    PollThrows(Logged(PollLogged(b, <<"Error polling job ">> \o err), "pollError"), err)

\* variant: the catch logs and the loop goes on
PollCatchSwallows(b, err) ==
    [Logged(PollLogged(b, <<"Error polling job ">> \o Digits(b.ref) \o err), "pollError")
        EXCEPT !.pc = "sleep"]

\* the catch inside the poll loop: log the error, rethrow it
PollCatch(b, err) ==
    PollThrows(Logged(PollLogged(b, <<"Error polling job ">> \o Digits(b.ref) \o err),
                      "pollError"),
               err)

\* reply of bulkApi.getInfo after d milliseconds: r.kind is "throw",
\* "undefined" or "info" (with state, processed, failed, errorMessage)
AfterInfo(b, c, r, d) ==
    LET b1 == [b EXCEPT !.elapsed = Later(@, d)]
        b2 == [b1 EXCEPT !.lastState = r.state, !.errorMessage = r.errorMessage,
                         !.processed = r.processed, !.failed = r.failed]
    IN  CASE r.kind = "throw" -> PollCatch(b1, <<"store error">>)
          [] r.kind = "undefined" ->
                PollCatch(PollLogged(b1, UndefinedText(b.ref)), UndefinedText(b.ref))
          [] PollComplete(r.state) -> AfterComplete(b2, c)
          [] PollFailed(r.state) ->
                PollCatch(PollLogged(b2, FailedLogText(b.ref, r.state, r.errorMessage)),
                          FailedErrorText(b.ref, r.state))
          [] OTHER -> [b2 EXCEPT !.pc = "sleep"]

\* variant: a failed fetch of the failed rows reaches the handler's catch
AfterFailedResultsEscalates(b, c, r) ==
    IF r = "throw"
    THEN HandlerCatch(Logged(b, "failedResultsError"), "dataError")
    ELSE AfterHarvest(b, c)

\* reply of bulkApi.getFailedResults: its own catch only logs
AfterFailedResults(b, c, r) ==
    AfterHarvest(IF r = "throw" THEN Logged(b, "failedResultsError") ELSE b, c)

\* an sf__Id that is there (0 is a record without one)
HasId(id) == id # 0

\* successfulRecords.map(rec => rec.get('sf__Id')).filter(id => id)
successfulOppIds(ids) == SelectSeq(ids, HasId)

\* reply of bulkApi.getSuccessfulResults: r.ids are the sf__Id values of its
\* records; then the child table is generated and submitted
AfterSuccessResults(b, c, r, pick, qty, price) ==
    CASE r.throw -> Returned(Logged(b, "successResultsError"))
      [] Len(successfulOppIds(r.ids)) = 0 -> Returned(Logged(b, "noOppIds"))
      [] OTHER ->
            LET olis == generateSampleOLIs(successfulOppIds(r.ids), b.pbes, pick, qty, price)
                b1 == [b EXCEPT !.oppIds = successfulOppIds(r.ids)]
            IN  IF Len(olis) = 0
                THEN Returned(Logged(Logged(b1, "noOlis"), "completed"))
                ELSE Submit(b1, c, "oli", "OpportunityLineItem", "insert",
                            ColumnsOf(olis, OliColumns), olis)

\* variant: the table is submitted whatever the query found
AfterDeleteQuerySubmitsAny(b, c, r) ==
    IF r.throw THEN HandlerCatch(b, "dataError")
    ELSE Submit(b, c, "del", "Opportunity", "hardDelete", <<"Id">>,
                [n \in 1..r.valid |-> [Id |-> n]])

\* reply of the candidate query of a delete job: r.n records on the page,
\* r.valid of them with an Id
AfterDeleteQuery(b, c, r) ==
    CASE r.throw -> HandlerCatch(b, "dataError")
      [] r.n = 0 -> Returned(Logged(b, "nothingToDelete"))
      [] OTHER -> Submit(b, c, "del", "Opportunity", "hardDelete", <<"Id">>,
                         [n \in 1..r.valid |-> [Id |-> n]])

----------------------------------------------------------------------------
(* services/quote.js.  A queried record is [id, closeDateOk, lines]:       *)
(* closeDateOk says whether CloseDate makes a valid Date; lines are the    *)
(* OpportunityLineItems, each [ok, UnitPrice, Quantity, PricebookEntryId], *)
(* ok saying whether the line has its fields.  Rates are in thousandths    *)
(* and a discounted price is kept as the exact product, in thousandths of  *)
(* the price unit.                                                         *)

\* variant: the rates are written as percentages
getDiscountForRegionPercent(region) ==
    CASE region = "NAMER" -> 10000
      [] region = "EMEA" -> 15000
      [] region = "APAC" -> 8000
      [] OTHER -> 5000

getDiscountForRegion(region) ==
    CASE region = "NAMER" -> 100
      [] region = "EMEA" -> 150
      [] region = "APAC" -> 80
      [] OTHER -> 50

\* validDiscount of the line loop
ValidDiscount(discount) == IF discount >= 0 /\ discount <= 1000 THEN discount ELSE 0

\* originalUnitPrice * (1 - validDiscount), in thousandths
DiscountedPrice(originalUnitPrice, discount) ==
    originalUnitPrice * (1000 - ValidDiscount(discount))

Registration(type, ref, parent, oppId, price, quantity, pbe) ==
    [type |-> type, ref |-> ref, parent |-> parent, oppId |-> oppId,
     UnitPrice |-> price, Quantity |-> quantity, PricebookEntryId |-> pbe]

RECURSIVE RegisterLinesUnderFirst(_, _, _, _)
\* variant: every line is registered under the first create of the unit of work
RegisterLinesUnderFirst(uow, lines, quoteRef, oppId) ==
    IF lines = <<>> THEN [uow |-> uow, threw |-> FALSE]
    ELSE IF ~Head(lines).ok THEN [uow |-> uow, threw |-> TRUE]
    ELSE RegisterLinesUnderFirst(
            Append(uow, Registration("QuoteLineItem", Len(uow) + 1, uow[1].ref, oppId,
                        DiscountedPrice(Head(lines).UnitPrice, getDiscountForRegion("NAMER")),
                        Head(lines).Quantity, Head(lines).PricebookEntryId)),
            Tail(lines), quoteRef, oppId)

RECURSIVE RegisterLines(_, _, _, _)
\* the lineItemsResult.records.forEach of one parent: one QuoteLineItem per
\* line until a line without fields throws; the result is the unit of work
\* and whether the loop threw
RegisterLines(uow, lines, quoteRef, oppId) ==
    IF lines = <<>> THEN [uow |-> uow, threw |-> FALSE]
    ELSE IF ~Head(lines).ok THEN [uow |-> uow, threw |-> TRUE]
    ELSE RegisterLines(
            Append(uow, Registration("QuoteLineItem", Len(uow) + 1, quoteRef, oppId,
                        DiscountedPrice(Head(lines).UnitPrice, getDiscountForRegion("NAMER")),
                        Head(lines).Quantity, Head(lines).PricebookEntryId)),
            Tail(lines), quoteRef, oppId)

\* quoteRefs.set(oppId, quoteRef) on a Map kept as a sequence of pairs in
\* insertion order
MapSet(m, key, val) ==
    IF \E n \in 1..Len(m) : m[n].key = key
    THEN [n \in 1..Len(m) |-> IF m[n].key = key THEN [key |-> key, val |-> val] ELSE m[n]]
    ELSE Append(m, [key |-> key, val |-> val])

RECURSIVE RegisterAllNoSkip(_, _)
\* variant: a parent without lines gets its Quote all the same
RegisterAllNoSkip(b, opps) ==
    IF opps = <<>> THEN b
    ELSE LET opp == Head(opps)
             quoteRef == Len(b.uow) + 1
         IN  IF ~opp.closeDateOk
             THEN RegisterAllNoSkip(Logged(b, "parentError"), Tail(opps))
             ELSE LET withQuote == Append(b.uow,
                                     Registration("Quote", quoteRef, 0, opp.id, 0, 0, 0))
                      lines == RegisterLines(withQuote, opp.lines, quoteRef, opp.id)
                      b1 == [b EXCEPT !.uow = lines.uow,
                                      !.quoteRefs = MapSet(@, opp.id, quoteRef)]
                  IN  RegisterAllNoSkip(IF lines.threw THEN Logged(b1, "parentError") ELSE b1,
                                        Tail(opps))

RECURSIVE RegisterAllAbortsOnError(_, _)
\* variant: an exception while a parent is prepared ends the walk
RegisterAllAbortsOnError(b, opps) ==
    IF opps = <<>> THEN b
    ELSE LET opp == Head(opps)
             quoteRef == Len(b.uow) + 1
         IN  IF Len(opp.lines) = 0
             THEN RegisterAllAbortsOnError(Logged(b, "noLineItems"), Tail(opps))
             ELSE IF ~opp.closeDateOk
             THEN Logged(b, "parentError")
             ELSE LET withQuote == Append(b.uow,
                                     Registration("Quote", quoteRef, 0, opp.id, 0, 0, 0))
                      lines == RegisterLines(withQuote, opp.lines, quoteRef, opp.id)
                      b1 == [b EXCEPT !.uow = lines.uow,
                                      !.quoteRefs = MapSet(@, opp.id, quoteRef)]
                  IN  IF lines.threw THEN Logged(b1, "parentError")
                      ELSE RegisterAllAbortsOnError(b1, Tail(opps))

RECURSIVE RegisterAll(_, _)
\* the opportunities.forEach: b.uow and b.quoteRefs after the given parents
RegisterAll(b, opps) ==
    IF opps = <<>> THEN b
    ELSE LET opp == Head(opps)
             quoteRef == Len(b.uow) + 1
         IN  IF Len(opp.lines) = 0
             THEN RegisterAll(Logged(b, "noLineItems"), Tail(opps))
             ELSE IF ~opp.closeDateOk
             THEN RegisterAll(Logged(b, "parentError"), Tail(opps))
             ELSE LET withQuote == Append(b.uow,
                                     Registration("Quote", quoteRef, 0, opp.id, 0, 0, 0))
                      lines == RegisterLines(withQuote, opp.lines, quoteRef, opp.id)
                      b1 == [b EXCEPT !.uow = lines.uow,
                                      !.quoteRefs = MapSet(@, opp.id, quoteRef)]
                  IN  RegisterAll(IF lines.threw THEN Logged(b1, "parentError") ELSE b1,
                                  Tail(opps))

\* !soqlWhereClause: the field is absent or the empty string
NoFilter(soql) == soql \in {None, ""}

\* variant: the filter is used as it comes
StartQuoteNoFilterCheck(b, c) ==
    LET b1 == [b EXCEPT !.handler = "quote"]
    IN  IF ~b.client.apis
        THEN Returned(Logged(b1, "invalidContext"))
        ELSE Issue(b1, c, "query", QueryArg("Pricebook2"), "quotePricebook")

\* handleQuoteMessage up to its first await
StartQuote(b, c) ==
    LET b1 == [b EXCEPT !.handler = "quote"]
    IN  IF NoFilter(b.msg.soqlWhereClause)
        THEN Returned(Logged(b1, "noWhereClause"))
        ELSE IF ~b.client.apis
        THEN Returned(Logged(b1, "invalidContext"))
        ELSE Issue(b1, c, "query", QueryArg("Pricebook2"), "quotePricebook")

\* variant: queryAll takes the first page for the whole result
MorePagesNever(r) == FALSE

\* queryAll: a page arrived; r is the page [throw, records, done, next]
MorePages(r) == ~r.done /\ r.next

\* the page the store returned for the call the job was suspended on
Fetched(b, r) ==
    [b EXCEPT !.fetched = Append(@, [call |-> Len(b.calls), records |-> r.records,
                                     done |-> r.done])]

\* the standard pricebook was looked up
AfterStdPricebook(b, c) ==
    IF Len(b.pages) = 0
    THEN HandlerCatch(Logged(b, "noPricebook"), "quoteError")
    ELSE Issue([b EXCEPT !.pricebook = b.pages[1].id, !.pages = <<>>], c,
               "query", QueryArg(b.msg.soqlWhereClause), "quoteOpps")

\* variant: one unit of work serves every invocation of the process
newUnitOfWorkShared(b) == [b EXCEPT !.unit = [w |-> b.w, pub |-> 0], !.units = @ + 1]

\* const unitOfWork = dataApi.newUnitOfWork(): a new object at each call,
\* named here after the invocation that made the call (worker and delivery)
newUnitOfWork(b) == [b EXCEPT !.unit = [w |-> b.w, pub |-> b.pub], !.units = @ + 1]

\* variant: the unit of work is committed whatever was found and registered
AfterOppsCommitsAlways(b, c) ==
    LET b1 == RegisterAll(newUnitOfWork(b), b.pages)
    IN  Issue(b1, c, "commitUnitOfWork", UowArg(b1.uow), "commit")

\* the opportunities were queried: register, then commit once
AfterOpps(b, c) ==
    IF Len(b.pages) = 0
    THEN Returned(Logged(b, "noOpportunities"))
    ELSE LET b1 == RegisterAll(newUnitOfWork(b), b.pages)
         IN  IF Len(b1.quoteRefs) = 0
             THEN Returned(Logged(b1, "noQuotes"))
             ELSE Issue(b1, c, "commitUnitOfWork", UowArg(b1.uow), "commit")

\* a page of queryAll arrived while the job waits in pc
AfterPage(b, c, r) ==
    IF r.throw THEN HandlerCatch(Logged(b, "queryAllError"), "quoteError")
    ELSE LET b1 == [b EXCEPT !.pages = @ \o r.records]
         IN  IF MorePages(r) THEN Issue(b1, c, "queryMore", QueryArg(None), b.pc)
             ELSE IF b.pc = "quotePricebook" THEN AfterStdPricebook(b1, c)
             ELSE AfterOpps(b1, c)

\* variant: the n-th entry of the commit result is taken for reference n
ResultAt(commitResult, ref) == commitResult[ref]

\* commitResult.get(originalQuoteRef): the entry stored under the reference,
\* whatever its place; id 0 is a result without an id, or no result
ResultFor(commitResult, ref) ==
    IF \E n \in 1..Len(commitResult) : commitResult[n].ref = ref
    THEN commitResult[CHOOSE n \in 1..Len(commitResult) : commitResult[n].ref = ref]
    ELSE [ref |-> ref, id |-> 0]

RECURSIVE TallyEveryCreate(_, _)
\* variant: the outcome of every create of the commit result is counted
TallyEveryCreate(b, n) ==
    IF n > Len(b.commitResult) THEN b
    ELSE IF b.commitResult[n].id # 0
    THEN TallyEveryCreate([b EXCEPT !.successCount = @ + 1], n + 1)
    ELSE TallyEveryCreate([b EXCEPT !.failureCount = @ + 1], n + 1)

RECURSIVE Tally(_, _)
\* the quoteRefs.forEach after the commit, from entry n on: one more success
\* when the result of the reference has an id, else one more failure
Tally(b, n) ==
    IF n > Len(b.quoteRefs) THEN b
    ELSE IF ResultFor(b.commitResult, b.quoteRefs[n].val).id # 0
    THEN Tally([b EXCEPT !.successCount = @ + 1], n + 1)
    ELSE Tally([b EXCEPT !.failureCount = @ + 1], n + 1)

\* variant: a commit that threw is tried once more
AfterCommitRetriesOnce(b, r) ==
    IF r.throw
    THEN IF Len(SelectSeq(b.calls, IsCommit)) < 2
         THEN Issue(b, b.client.accessToken, "commitUnitOfWork", UowArg(b.uow), "commit")
         ELSE HandlerCatch(b, "quoteError")
    ELSE Returned(Logged(Tally([b EXCEPT !.commitResult = r.result], 1), "completed"))

\* reply of commitUnitOfWork: r.result is the map of results as a sequence of
\* [ref, id] entries in the order the store filled it; the quoteRefs map is
\* walked and tallied
AfterCommit(b, r) ==
    IF r.throw THEN HandlerCatch(b, "quoteError")
    ELSE Returned(Logged(Tally([b EXCEPT !.commitResult = r.result], 1), "completed"))

----------------------------------------------------------------------------
(* Delivery: ioredis emits 'message' and handleJobMessage runs to its      *)
(* first await.                                                            *)

\* variant: the next text is emitted only when the earlier invocations of
\* the listener are over
ListenerWaits(w) ==
    \A j \in JobIds : jobs[j].w = w => jobs[j].pc \in {"done", "rejected"}

\* redisClient.on('message', handleJobMessage): the emitter calls the async
\* listener and drops the promise, so nothing holds back the next emit
ListenerReady(w) == TRUE

\* variant: the else branch falls through to the data handler
RouteDefaultsToData(jobType) == IF jobType = "quote" THEN "quote" ELSE "data"

\* the branch on jobType: the handler it names, None for the else branch
Route(jobType) ==
    CASE jobType = "quote" -> "quote"
      [] jobType = "data" -> "data"
      [] OTHER -> None

\* variant: a text whose jobId was handled before is skipped
SeenJobId(js, msg) ==
    /\ msg.kind = "object"
    /\ \E k \in 1..Len(js) : js[k].msg.jobId = msg.jobId /\ js[k].handler # None

\* handleJobMessage looks nothing up about earlier messages: no text is
\* recognised as one seen before
SeenBefore(js, msg) == FALSE

\* handleJobMessage for text msg as invocation j; ctorThrows says whether
\* new ContextImpl threw
handleJobMessage(js, w, msg, pub, j, ctorThrows) ==
    LET b0 == NewJob(w, msg, pub)
    IN  IF SeenBefore(js, msg) THEN Returned(b0)
        ELSE IF ~ParseOk(msg) THEN Returned(Logged(b0, "parseError"))
        ELSE IF ~DestructureOk(msg) THEN [b0 EXCEPT !.pc = "rejected"]
        ELSE IF ~ContextOk(msg.context) THEN Returned(Logged(b0, "missingContext"))
        ELSE IF ctorThrows THEN DispatcherCatch(b0)
        ELSE LET b1 == [b0 EXCEPT !.client = ContextImpl(msg.context)]
                 c == ClientFor(Append(js, b1), j).accessToken
             IN  CASE Route(msg.jobType) = "quote" -> StartQuote(b1, c)
                   [] Route(msg.jobType) = "data" -> StartData(b1, c)
                   [] OTHER -> Returned(Logged(b1, "unknownJobType"))

\* The connection subscribes to jobsChannel only, so every text emitted is
\* of that channel and the channel test of the listener always passes.
\* A rejected promise of the listener is an unhandled rejection: depending
\* on the runtime it is reported only, or it ends the process.
Deliver(w) ==
    /\ wstate[w] = "subscribed"
    /\ inbox[w] # <<>>
    /\ ListenerReady(w)
    /\ \E ctorThrows \in env.ctorThrows, exits \in BOOLEAN :
          LET b == handleJobMessage(jobs, w, Head(inbox[w]).msg, Head(inbox[w]).pub,
                                    Len(jobs) + 1, ctorThrows)
          IN  /\ exits => b.pc = "rejected"
              /\ jobs' = Append(jobs, b)
              /\ wstate' = [wstate EXCEPT ![w] = IF exits THEN "exited" ELSE @]
              /\ inbox' = [inbox EXCEPT ![w] = IF exits THEN <<>> ELSE Tail(@)]
    /\ UNCHANGED <<env, pending, published, nextId>>

----------------------------------------------------------------------------
(* Replies: the call job j is suspended on returns and j runs on           *)

Waiting(j, pc) ==
    /\ j \in JobIds
    /\ jobs[j].pc = pc
    /\ wstate[jobs[j].w] = "subscribed"

Cred(j) == ClientFor(jobs, j).accessToken

\* a query or result fetch answered: it threw, or found no or some records
Found(throw, n) == IF throw THEN "throw" ELSE IF n = 0 THEN "none" ELSE "some"

Resume(j, b) ==
    /\ jobs' = [jobs EXCEPT ![j] = b]
    /\ UNCHANGED <<env, pending, wstate, inbox, published, nextId>>

StageNo(stage) == CASE stage = "opp" -> 1 [] stage = "oli" -> 2 [] OTHER -> 3

\* the id the store gives the bulk job of stage `stage` of invocation j
RefOf(j, stage) == 3 * (j - 1) + StageNo(stage)

AccountReply(j) ==
    /\ Waiting(j, "qAccount")
    /\ \E r \in env.lookups : Resume(j, AfterAccount(Got(jobs[j], r), Cred(j), r))

PricebookReply(j) ==
    /\ Waiting(j, "qPricebook")
    /\ \E r \in env.lookups : Resume(j, AfterPricebook(Got(jobs[j], r), Cred(j), r))

PbeReply(j) ==
    /\ Waiting(j, "qPbe")
    /\ \E r \in env.pbeReplies, k \in env.tickAt :
          Resume(j, AfterPbe(Got(jobs[j], Found(r.throw, Len(r.records))), Cred(j), r, k))

IngestReply(j) ==
    /\ Waiting(j, "ingest")
    /\ \E r \in env.ingestReplies :
          Resume(j, AfterIngest(Got(jobs[j], r), Cred(j), r, RefOf(j, jobs[j].stage)))

InfoReply(j) ==
    /\ Waiting(j, "poll")
    /\ \E r \in env.infos, d \in env.latencies :
          Resume(j, AfterInfo(Got(jobs[j], IF r.kind = "info" THEN r.state ELSE r.kind),
                              Cred(j), r, d))

SleepOver(j) ==
    /\ Waiting(j, "sleep")
    /\ Resume(j, AfterSleep(jobs[j], Cred(j)))

FailedResultsReply(j) ==
    /\ Waiting(j, "failedResults")
    /\ \E r \in env.failedReplies :
          Resume(j, AfterFailedResults(Got(jobs[j], r), Cred(j), r))

SuccessResultsReply(j) ==
    /\ Waiting(j, "successResults")
    /\ \E r \in env.successReplies :
       \E pick \in [1..(FIXED_OLI_COUNT * Len(successfulOppIds(r.ids)))
                        -> 1..Len(jobs[j].pbes)] :
       \E qty \in env.quantities, price \in env.prices :
          Resume(j, AfterSuccessResults(Got(jobs[j], Found(r.throw, Len(r.ids))),
                                        Cred(j), r, pick, qty, price))

\* what the candidate query of a delete job matched in the store: the
\* records with an Id of the page returned and of the pages after it
Matched(b, r) == [b EXCEPT !.matched = r.valid + r.more]

DeleteQueryReply(j) ==
    /\ Waiting(j, "qDelete")
    /\ \E r \in env.deleteReplies :
          Resume(j, AfterDeleteQuery(Got(Matched(jobs[j], r), Found(r.throw, r.n)),
                                     Cred(j), r))

RECURSIVE TrailingMore(_)
\* the queryMore calls at the end of a call log
TrailingMore(calls) ==
    IF calls # <<>> /\ calls[Len(calls)].op = "queryMore"
    THEN 1 + TrailingMore(SubSeq(calls, 1, Len(calls) - 1))
    ELSE 0

PageReply(j) ==
    /\ \/ Waiting(j, "quotePricebook")
       \/ Waiting(j, "quoteOpps")
    /\ \E r \in (IF jobs[j].pc = "quotePricebook" THEN env.pricebookPages ELSE env.oppPages) :
          /\ MorePages(r) => TrailingMore(jobs[j].calls) + 1 < MaxPages
          \* a query result holds a record once
          /\ \A m \in 1..Len(jobs[j].pages), n \in 1..Len(r.records) :
                jobs[j].pages[m].id # r.records[n].id
          /\ Resume(j, AfterPage(Got(IF r.throw THEN jobs[j] ELSE Fetched(jobs[j], r),
                                     Found(r.throw, Len(r.records))), Cred(j), r))

\* the result map of a commit of n creates: an entry per reference, with an
\* id (100 + reference) for the created ones, filled in registration order
\* or backwards
CommitResult(n, created, backwards) ==
    [k \in 1..n |->
        LET ref == IF backwards THEN n + 1 - k ELSE k
        IN  [ref |-> ref, id |-> IF ref \in created THEN 100 + ref ELSE 0]]

CommitReply(j) ==
    /\ Waiting(j, "commit")
    /\ \/ /\ TRUE \in env.commitThrows
          /\ Resume(j, AfterCommit(Got(jobs[j], "throw"), [throw |-> TRUE, result |-> <<>>]))
       \/ \E created \in SUBSET (1..Len(jobs[j].uow)), backwards \in env.resultOrders :
            Resume(j, AfterCommit(Got(jobs[j], "ok"),
                                  [throw |-> FALSE,
                                   result |-> CommitResult(Len(jobs[j].uow), created, backwards)]))

----------------------------------------------------------------------------
(* Scenarios: what is deployed, what the publishers send, and what the     *)
(* record store may answer.                                                *)

NoRequest == [route |-> None, context |-> NoContext, n |-> <<>>, soql |-> None]

Request(route, ctx, n, soql) == [route |-> route, context |-> ctx, n |-> n, soql |-> soql]

\* a query parameter numberOfOpportunities: not there, or its characters
Absent == <<>>
Param(chars) == <<chars>>

Raw(n, text) == [n |-> n, via |-> "raw", req |-> NoRequest, text |-> text]
Api(n, req) == [n |-> n, via |-> "api", req |-> req, text |-> Garbage]

Info(state, processed, failed) ==
    [kind |-> "info", state |-> state, processed |-> processed, failed |-> failed,
     errorMessage |-> None]
InfoFailed(state, errorMessage) == [Info(state, 0, 0) EXCEPT !.errorMessage = errorMessage]
InfoThrow == [Info(None, 0, 0) EXCEPT !.kind = "throw"]
InfoUndefined == [Info(None, 0, 0) EXCEPT !.kind = "undefined"]

Page(records, done, next) == [throw |-> FALSE, records |-> records, done |-> done, next |-> next]
PageThrow == [throw |-> TRUE, records |-> <<>>, done |-> TRUE, next |-> FALSE]

Line(ok, price, qty, pbe) ==
    [ok |-> ok, UnitPrice |-> price, Quantity |-> qty, PricebookEntryId |-> pbe]
Rec(id, closeDateOk, lines) == [id |-> id, closeDateOk |-> closeDateOk, lines |-> lines]

Rows(throw, n, valid) == [throw |-> throw, n |-> n, valid |-> valid, more |-> 0]
\* a first page of n records that is not done: `more` records are on the
\* pages after it
RowsOfMany(n, valid, more) == [throw |-> FALSE, n |-> n, valid |-> valid, more |-> more]
Pbe(id, product) == [Id |-> id, Product2Id |-> product]
Pbes(throw, records) == [throw |-> throw, records |-> records]
Ids(throw, ids) == [throw |-> throw, ids |-> ids]

\* a store that answers each call in one or two ways
StoreNarrow ==
    [apis |-> TRUE,
     ctorThrows |-> BOOLEAN,
     lookups |-> {"throw", "one"},
     pbeReplies |-> {Pbes(FALSE, <<Pbe(1, 11)>>)},
     now |-> 9,
     tickAt |-> {1},
     ingestReplies |-> {"ref"},
     infos |-> {Info("InProgress", 0, 0), Info("JobComplete", 2, 1)},
     latencies |-> {BULK_API_TIMEOUT},
     failedReplies |-> {"ok"},
     successReplies |-> {Ids(FALSE, <<1>>)},
     quantities |-> {1},
     prices |-> {10},
     deleteReplies |-> {Rows(FALSE, 1, 1)},
     pricebookPages |-> {Page(<<Rec(1, TRUE, <<>>)>>, TRUE, FALSE)},
     oppPages |-> {PageThrow, Page(<<Rec(1, TRUE, <<Line(TRUE, 20, 1, 1)>>)>>, TRUE, FALSE)},
     commitThrows |-> BOOLEAN,
     resultOrders |-> {FALSE}]

\* the narrow store with every answer to the prerequisite queries of a
\* create job and every reading of the clock while the rows are generated
StoreQueries ==
    [StoreNarrow EXCEPT
        !.lookups = {"throw", "none", "one"},
        !.pbeReplies = {Pbes(TRUE, <<>>), Pbes(FALSE, <<>>), Pbes(FALSE, <<Pbe(1, 0)>>),
                        Pbes(FALSE, <<Pbe(0, 0), Pbe(2, 12)>>),
                        Pbes(FALSE, [n \in 1..MaxRecords |-> Pbe(n, 10 + n)])},
        !.tickAt = 0..MaxCount]

\* the narrow store with a failure possible at every call
StoreFaulty ==
    [StoreNarrow EXCEPT
        !.pbeReplies = {Pbes(TRUE, <<>>), Pbes(FALSE, <<Pbe(1, 11)>>)},
        !.ingestReplies = {"throw", "error", "ref"},
        !.infos = {InfoThrow, Info("InProgress", 0, 0), Info("Failed", 0, 0),
                   Info("JobComplete", 2, 1)},
        !.failedReplies = {"ok", "throw"},
        !.successReplies = {Ids(TRUE, <<>>), Ids(FALSE, <<1>>)},
        !.deleteReplies = {Rows(TRUE, 0, 0), Rows(FALSE, 1, 1)},
        !.pricebookPages = {PageThrow, Page(<<Rec(1, TRUE, <<>>)>>, TRUE, FALSE)}]

\* a store that answers a submission in every way
StoreSubmits ==
    [StoreNarrow EXCEPT
        !.ctorThrows = {FALSE},
        !.lookups = {"one"},
        !.ingestReplies = {"throw", "error", "unexpected", "ref"}]

\* a store whose bulk jobs end in every way: every state a status fetch can
\* report, parent jobs with all, some or no rows failed, result fetches
\* with and without ids, and entries of which one is not usable
StoreBulk ==
    [StoreNarrow EXCEPT
        !.ctorThrows = {FALSE},
        !.lookups = {"one"},
        !.pbeReplies = {Pbes(FALSE, <<Pbe(0, 0), Pbe(1, 11), Pbe(2, 12)>>)},
        !.infos = {InfoThrow, InfoUndefined,
                   Info("Open", 0, 0), Info("UploadComplete", 0, 0), Info("InProgress", 1, 0),
                   Info("Unrecognised", 0, 0),
                   InfoFailed("Failed", "m1"), InfoFailed("Aborted", "m2"),
                   Info("JobComplete", 0, 0), Info("JobComplete", MaxRecords, MaxRecords),
                   Info("JobComplete", MaxRecords, 1), Info("JobComplete", MaxRecords, 0)},
        !.latencies = {BULK_API_TIMEOUT \div 2},
        !.failedReplies = {"ok", "throw"},
        !.successReplies = {Ids(TRUE, <<>>), Ids(FALSE, <<>>), Ids(FALSE, <<0>>),
                            Ids(FALSE, <<0, 1>>)}
                           \cup {Ids(FALSE, [n \in 1..m |-> n]) : m \in 1..MaxRecords}]

\* a store whose bulk jobs stay in progress or complete, answering a status
\* fetch at once, after a millisecond or after the whole budget
StoreSlow ==
    [StoreNarrow EXCEPT
        !.ctorThrows = {FALSE},
        !.infos = {Info("InProgress", 0, 0), Info("JobComplete", 1, 0)},
        !.latencies = {0, 1, BULK_API_TIMEOUT}]

\* the faulty store with every answer to the candidate query of a delete job
StoreDeletes ==
    [StoreFaulty EXCEPT
        !.ctorThrows = {FALSE},
        !.deleteReplies = {Rows(TRUE, 0, 0), Rows(FALSE, 0, 0), Rows(FALSE, MaxRecords, 1),
                           Rows(FALSE, MaxRecords, MaxRecords),
                           RowsOfMany(MaxRecords, MaxRecords, 1)}]

\* a store whose opportunity pages mix parents with and without lines
StoreQuotes ==
    [StoreNarrow EXCEPT
        !.ctorThrows = {FALSE},
        !.resultOrders = BOOLEAN,
        !.oppPages = {Page(<<Rec(1, TRUE, <<>>), Rec(2, TRUE, <<Line(TRUE, 20, 1, 1)>>)>>,
                           FALSE, TRUE),
                      Page(<<Rec(3, TRUE, <<Line(TRUE, 20, 1, 1), Line(TRUE, 30, 2, 2)>>),
                             Rec(4, TRUE, <<>>)>>, TRUE, FALSE),
                      Page(<<Rec(5, TRUE, <<>>)>>, TRUE, FALSE),
                      Page(<<Rec(6, FALSE, <<Line(TRUE, 20, 1, 1)>>), Rec(7, TRUE, <<>>)>>,
                           TRUE, FALSE),
                      Page(<<Rec(8, FALSE, <<Line(TRUE, 20, 1, 1)>>),
                             Rec(9, TRUE, <<Line(TRUE, 30, 2, 2)>>)>>, TRUE, FALSE),
                      Page(<<Rec(10, TRUE, <<Line(TRUE, 20, 1, 1), Line(FALSE, 0, 0, 0)>>),
                             Rec(11, TRUE, <<Line(TRUE, 30, 2, 2)>>)>>, TRUE, FALSE),
                      Page(<<>>, TRUE, FALSE),
                      Page(<<>>, FALSE, TRUE)}]

\* an SDK whose client comes without its APIs
StoreWithoutApis == [StoreNarrow EXCEPT !.apis = FALSE]

Scenario(workers, script, store) == [workers |-> workers, script |-> script] @@ store

Quote(jobId, t) == Envelope(jobId, "quote", FullContext(t), None, <<>>, "Name = 'X'")
Create(jobId, t, count) == Envelope(jobId, "data", FullContext(t), "create", count, None)
Delete(jobId, t) == Envelope(jobId, "data", FullContext(t), "delete", <<>>, None)

\* contexts that are not fully populated
PartialContexts ==
    {NoContext, NoOrg} \cup {Without(FullContext("t1"), f) : f \in OrgFields}

\* texts a worker can meet on the channel, one at a time
SingleTexts ==
    {Garbage, JsonNull, JsonScalar,
     Envelope(1, "report", FullContext("t1"), None, <<>>, None),
     Envelope(1, None, FullContext("t1"), "create", <<1>>, "Name = 'X'"),
     Envelope(0, "quote", FullContext("t1"), None, <<>>, None),
     Envelope(1, "quote", FullContext("t1"), None, <<>>, ""),
     Envelope(1, "data", FullContext("t1"), "upsert", <<>>, None),
     Quote(1, "t1"), Delete(1, "t2")}
    \cup {Create(1, "t1", c) : c \in {<<>>} \cup {<<n>> : n \in 0..MaxCount}}
    \cup {Envelope(1, jt, ctx, "delete", <<>>, "Name = 'X'") :
            jt \in {"quote", "data", "report"}, ctx \in PartialContexts}

\* requests the HTTP adapter can receive, one at a time
SingleRequests ==
    {Request("executebatch", FullContext("t1"), Absent, "Name = 'X'"),
     Request("executebatch", NoContext, Absent, "Name = 'X'"),
     Request("datadelete", FullContext("t2"), Absent, None),
     Request("datadelete", FullContext("t2"), Param(<<"2">>), None)}
    \cup {Request("datacreate", FullContext("t1"), n, None) :
            n \in {Absent, Param(<<>>), Param(<<"a", "b", "c">>), Param(<<"-", "1">>),
                   Param(<<"0">>), Param(<<"1">>), Param(Digits(MaxCount)),
                   Param(<<" ", "+", "2", "x">>), Param(<<"1", ".", "5">>)}}

\* two texts on the channel of one worker
Pairs ==
    {{Raw(1, Create(1, "t1", <<1>>)), Raw(2, Quote(2, "t2"))},
     {Raw(1, Create(1, "t1", <<1>>)), Raw(2, Create(2, "t2", <<1>>))},
     {Raw(1, Quote(1, "t1")), Raw(2, Quote(1, "t1"))},
     {Raw(1, Create(1, "t1", <<1>>)), Raw(2, Create(1, "t1", <<1>>))},
     {Raw(1, Delete(1, "t1")), Raw(2, Quote(2, "t2"))},
     {Raw(1, JsonNull), Raw(2, Delete(2, "t2"))},
     {Api(1, Request("datacreate", FullContext("t1"), Param(<<"1">>), None)),
      Api(2, Request("executebatch", FullContext("t2"), Absent, "Name = 'X'"))}}

\* two jobs of different tenants on one worker, with a faulty store
FaultyPairs ==
    {{Raw(1, Create(1, "t1", <<1>>)), Raw(2, Quote(2, "t2"))},
     {Raw(1, Delete(1, "t1")), Raw(2, Create(2, "t2", <<1>>))}}

Scenarios ==
    {Scenario({"w1"}, {Raw(1, t)}, StoreNarrow) : t \in SingleTexts}
    \cup {Scenario({"w1"}, {Api(1, r)}, StoreNarrow) : r \in SingleRequests}
    \cup {Scenario({"w1"}, {Raw(1, Create(1, "t1", c))}, StoreQueries) :
            c \in {<<>>} \cup {<<n>> : n \in 0..MaxCount}}
    \cup {Scenario({"w1"}, script, StoreNarrow) : script \in Pairs}
    \cup {Scenario({"w1"}, script, StoreFaulty) : script \in FaultyPairs}
    \cup {Scenario({"w1"}, {Raw(1, Create(1, "t1", <<n>>))}, StoreBulk) : n \in 1..MaxCount}
    \cup {Scenario({"w1"}, {Raw(1, Delete(1, "t1"))}, StoreBulk)}
    \cup {Scenario({"w1"}, {Raw(1, Delete(1, "t1"))}, StoreSlow)}
    \cup {Scenario({"w1"}, {Raw(1, Create(1, "t1", <<1>>))},
                    [StoreSlow EXCEPT !.latencies = {0}])}
    \cup {Scenario({"w1"}, {Raw(1, Delete(1, "t1"))}, StoreDeletes)}
    \cup {Scenario({"w1"}, {Raw(1, t)}, StoreSubmits) :
            t \in {Create(1, "t1", <<1>>), Delete(1, "t1")}}
    \cup {Scenario({"w1"}, {Raw(1, Quote(1, "t1"))}, StoreQuotes)}
    \cup {Scenario({"w1"}, {Raw(1, t)}, StoreWithoutApis) :
            t \in {Quote(1, "t1"), Create(1, "t1", <<1>>)}}
    \cup {Scenario(AllWorkers, {Raw(1, t)}, StoreNarrow) :
            t \in {Quote(1, "t1"), Delete(1, "t2"), Garbage}}

Init ==
    /\ env \in Scenarios
    /\ pending = env.script
    /\ wstate = [w \in env.workers |-> "starting"]
    /\ inbox = [w \in env.workers |-> <<>>]
    /\ published = <<>>
    /\ nextId = 1
    /\ jobs = <<>>

Next ==
    \/ \E item \in pending : PublishJob(item)
    \/ \E item \in pending : ChannelPublish(item)
    \/ \E w \in env.workers : Subscribe(w)
    \/ \E w \in env.workers : StartupFailure(w)
    \/ \E w \in env.workers : Deliver(w)
    \/ \E j \in JobIds : AccountReply(j)
    \/ \E j \in JobIds : PricebookReply(j)
    \/ \E j \in JobIds : PbeReply(j)
    \/ \E j \in JobIds : IngestReply(j)
    \/ \E j \in JobIds : InfoReply(j)
    \/ \E j \in JobIds : SleepOver(j)
    \/ \E j \in JobIds : FailedResultsReply(j)
    \/ \E j \in JobIds : SuccessResultsReply(j)
    \/ \E j \in JobIds : DeleteQueryReply(j)
    \/ \E j \in JobIds : PageReply(j)
    \/ \E j \in JobIds : CommitReply(j)

Spec == Init /\ [][Next]_vars

\* Every getInfo the poll loop awaits is answered and every setTimeout it
\* awaits fires.
PollFairness ==
    /\ WF_vars(\E j \in JobIds : InfoReply(j))
    /\ WF_vars(\E j \in JobIds : SleepOver(j))

\* the scenarios in which bulk jobs are polled in every way (every state a
\* status fetch can report, answers at once and late, one and two
\* invocations), with those that take the other steps of the program
LiveScenarios ==
    {Scenario({"w1"}, {Raw(1, t)}, StoreNarrow) : t \in SingleTexts}
    \cup {Scenario({"w1"}, {Api(1, r)}, StoreNarrow) : r \in SingleRequests}
    \cup {Scenario({"w1"}, script, StoreFaulty) : script \in FaultyPairs}
    \cup {Scenario({"w1"}, {Raw(1, Delete(1, "t1"))}, StoreBulk)}
    \cup {Scenario({"w1"}, {Raw(1, Create(1, "t1", <<1>>))},
                    [StoreBulk EXCEPT !.successReplies = {Ids(FALSE, <<1>>)}])}
    \cup {Scenario({"w1"}, {Raw(1, Delete(1, "t1"))}, StoreSlow)}
    \cup {Scenario({"w1"}, {Raw(1, Create(1, "t1", <<1>>))},
                    [StoreSlow EXCEPT !.latencies = {0}])}
    \cup {Scenario(AllWorkers, {Raw(1, Delete(1, "t2"))}, StoreNarrow)}

LiveInit == Init /\ env \in LiveScenarios

LiveSpec == LiveInit /\ [][Next]_vars /\ PollFairness

----------------------------------------------------------------------------
(* Properties *)

\* texts that are JSON objects
IsEnvelope(msg) == msg.kind = "object"

\* the dispatcher dropped the text of invocation j: a log entry, no client,
\* no handler, no store call, and the invocation ended normally
Dropped(j, tag) ==
    /\ jobs[j].pc = "done"
    /\ jobs[j].log = {tag}
    /\ ~jobs[j].client.present
    /\ jobs[j].handler = None
    /\ jobs[j].calls = <<>>

\* C1: an envelope whose jobType is neither quote nor data (or is absent)
\* makes the dispatcher log and return: no handler is invoked and no store
\* call is made.
C1_UnknownTypeNotHandled ==
    \A j \in JobIds :
        (IsEnvelope(jobs[j].msg) /\ jobs[j].msg.jobType \notin {"quote", "data"}) =>
            /\ jobs[j].pc = "done"
            /\ jobs[j].log # {}
            /\ jobs[j].handler = None
            /\ jobs[j].calls = <<>>

C1_Witness ==
    \E j \in JobIds :
        /\ IsEnvelope(jobs[j].msg)
        /\ jobs[j].msg.jobType \notin {"quote", "data"}
        /\ jobs[j].client.present
        /\ "unknownJobType" \in jobs[j].log

\* log entries written where an exception is caught
ErrorTags ==
    {"handlerError", "dataError", "quoteError", "failedResultsError",
     "successResultsError", "parentError"}

\* C2: when an exception is raised in a handler or while the client is
\* built (a step in which an invocation logs a caught error), that
\* invocation does not reject, the worker stays subscribed with its waiting
\* texts, and no other job's record changes.
C2_HandlerErrorsContained ==
    [][\A j \in 1..Len(jobs') :
        LET before == IF j <= Len(jobs) THEN jobs[j].log ELSE {}
            w == jobs'[j].w
        IN  ((jobs'[j].log \ before) \cap ErrorTags # {}) =>
                /\ jobs'[j].pc # "rejected"
                /\ wstate' = wstate
                /\ inbox'[w] = IF j <= Len(jobs) THEN inbox[w] ELSE Tail(inbox[w])
                /\ \A k \in JobIds \ {j} : jobs'[k] = jobs[k]]_vars

C2_Witness ==
    \E j, k \in JobIds :
        /\ j < k
        /\ jobs[j].w = jobs[k].w
        /\ "dataError" \in jobs[j].log
        /\ jobs[j].pc = "done"
        /\ "completed" \in jobs[k].log

\* C3: a text waiting at a subscribed worker can always be delivered, its
\* dispatcher run and its handler started, whatever the earlier jobs of
\* that worker are suspended on.
C3_DeliveryNeverWaits ==
    \A w \in env.workers :
        (wstate[w] = "subscribed" /\ inbox[w] # <<>>) => ENABLED Deliver(w)

C3_Witness ==
    \E j, k \in JobIds :
        /\ j < k
        /\ jobs[j].w = jobs[k].w
        /\ jobs[j].pc = "sleep"
        /\ jobs[k].handler # None
        /\ Len(jobs[k].calls) = 1

\* invocations of a handler for publication p
HandlerRuns(p) == {j \in JobIds : jobs[j].pub = p /\ jobs[j].handler # None}

\* invocations of the dispatcher of worker w for publication p, done or due
Deliveries(p, w) ==
    Cardinality({j \in JobIds : jobs[j].pub = p /\ jobs[j].w = w})
    + Cardinality({n \in 1..Len(inbox[w]) : inbox[w][n].pub = p})

C5_NoDeduplication ==
    \A j, k \in JobIds :
        (/\ j < k
         /\ jobs[j].w = jobs[k].w
         /\ jobs[j].msg = jobs[k].msg
         /\ jobs[j].handler # None
         /\ "handlerError" \notin jobs[k].log) =>
            /\ jobs[k].handler = jobs[j].handler
            /\ jobs[j].calls # <<>> => jobs[k].calls # <<>>

Submissions(j) ==
    {n \in 1..Len(jobs[j].calls) : jobs[j].calls[n].op \in {"ingest", "commitUnitOfWork"}}

C5_Witness ==
    \E j, k \in JobIds :
        /\ j < k
        /\ jobs[j].msg = jobs[k].msg
        /\ Submissions(j) # {}
        /\ Submissions(k) # {}

\* C6: an envelope published while no worker is subscribed is never handed
\* to any dispatcher, not even of a worker that subscribes later.
C6_LostWithoutSubscriber ==
    \A p \in 1..Len(published) :
        published[p].subscribed = {} => \A w \in env.workers : Deliveries(p, w) = 0

C6_Witness ==
    /\ pending = {}
    /\ \E p \in 1..Len(published) : published[p].subscribed = {}
    /\ \E w \in env.workers : wstate[w] = "subscribed"

\* C7: a text that is not JSON is logged and dropped: no client, no
\* handler, no store call, no rejection, and its worker's dispatcher is
\* invoked for it once only.
C7_UnparseableDropped ==
    \A j \in JobIds :
        jobs[j].msg.kind = "garbage" =>
            /\ Dropped(j, "parseError")
            /\ Deliveries(jobs[j].pub, jobs[j].w) = 1

C7_Witness ==
    \E j \in JobIds : jobs[j].msg.kind = "garbage" /\ jobs[j].pc = "done"

\* every sub-field of the security context is there
FullyPopulated(ctx) ==
    /\ ctx.present
    /\ ctx.org
    /\ \A f \in OrgFields : ctx[f] # None

\* C8 as stated: an envelope whose context is missing or lacks any required
\* sub-field is logged and dropped, with no client and no handler.
C8_PartialContextDropped ==
    \A j \in JobIds :
        (IsEnvelope(jobs[j].msg) /\ ~FullyPopulated(jobs[j].msg.context)) =>
            /\ jobs[j].pc = "done"
            /\ jobs[j].log # {}
            /\ ~jobs[j].client.present
            /\ jobs[j].handler = None
            /\ jobs[j].calls = <<>>

\* C8 amended: an envelope whose context is missing, has no org, or lacks
\* the access token or the base URL is logged and dropped, with no client
\* and no handler.
C8_UncheckedContextDropped ==
    \A j \in JobIds :
        (/\ IsEnvelope(jobs[j].msg)
         /\ \/ ~jobs[j].msg.context.present
            \/ ~jobs[j].msg.context.org
            \/ jobs[j].msg.context.accessToken = None
            \/ jobs[j].msg.context.domainUrl = None) =>
            Dropped(j, "missingContext")

C8_Witness ==
    \E j \in JobIds :
        /\ IsEnvelope(jobs[j].msg)
        /\ jobs[j].msg.context.accessToken # None
        /\ jobs[j].msg.context.domainUrl = None
        /\ jobs[j].msg.jobType \in {"quote", "data"}
        /\ "missingContext" \in jobs[j].log

\* C9: every store call of an invocation carries the credential of that
\* invocation's own envelope.
C9_OwnCredentials ==
    \A j \in JobIds : \A n \in 1..Len(jobs[j].calls) :
        jobs[j].calls[n].cred = jobs[j].msg.context.accessToken

Ops(j) == {jobs[j].calls[n].op : n \in 1..Len(jobs[j].calls)}

C9_Witness ==
    \E j, k \in JobIds :
        /\ jobs[j].w = jobs[k].w
        /\ jobs[j].msg.context.accessToken # jobs[k].msg.context.accessToken
        /\ {"query", "ingest", "getInfo", "getFailedResults", "getSuccessfulResults"}
              \subseteq Ops(j)
        /\ "commitUnitOfWork" \in Ops(k)
        /\ jobs[j].pc # "done"

\* the parent tables invocation j submitted
ParentTables(j) ==
    {jobs[j].calls[n].arg : n \in
        {m \in 1..Len(jobs[j].calls) :
            /\ jobs[j].calls[m].op = "ingest"
            /\ jobs[j].calls[m].arg.object = "Opportunity"
            /\ jobs[j].calls[m].arg.operation = "insert"}}

\* C10: the parent table a data/create job with count = N submits has
\* exactly N rows, with pairwise distinct names.
C10_ParentRows ==
    \A j \in JobIds : \A t \in ParentTables(j) :
        /\ jobs[j].msg.count # <<>> => Len(t.rows) = jobs[j].msg.count[1]
        /\ \A m, n \in 1..Len(t.rows) : m # n => t.rows[m].Name # t.rows[n].Name

C10_Witness ==
    \E j \in JobIds : \E t \in ParentTables(j) :
        /\ jobs[j].msg.count = <<MaxCount>>
        /\ Len(t.rows) = MaxCount
        /\ t.rows[1].CloseDate = t.rows[2].CloseDate

\* the child tables invocation j submitted
ChildTables(j) ==
    {jobs[j].calls[n].arg : n \in
        {m \in 1..Len(jobs[j].calls) :
            /\ jobs[j].calls[m].op = "ingest"
            /\ jobs[j].calls[m].arg.object = "OpportunityLineItem"}}

\* the parent bulk job of invocation j completed with no row created
NoParentCreated(j) ==
    /\ jobs[j].oppJobInfo # <<>>
    /\ \/ jobs[j].oppJobInfo[1].numberRecordsProcessed = 0
       \/ jobs[j].oppJobInfo[1].numberRecordsProcessed
              = jobs[j].oppJobInfo[1].numberRecordsFailed

\* C11: a data/create job submits a child table only when its parent bulk
\* job completed with more rows processed than failed, and never an empty
\* one; when the parent job processed no row or all its rows failed, the job
\* fetches no successful results, submits no child table and ends once the
\* failed rows were looked at.
C11_ChildOnlyAfterParentSuccess ==
    \A j \in JobIds :
        /\ ChildTables(j) # {} =>
                /\ jobs[j].oppJobInfo # <<>>
                /\ jobs[j].oppJobInfo[1].numberRecordsProcessed
                      > jobs[j].oppJobInfo[1].numberRecordsFailed
                /\ \A t \in ChildTables(j) : t.rows # <<>>
        /\ NoParentCreated(j) =>
                /\ ChildTables(j) = {}
                /\ "getSuccessfulResults" \notin Ops(j)
                /\ jobs[j].pc \in {"failedResults", "done"}
                /\ jobs[j].pc = "done" => "noOppsCreated" \in jobs[j].log

C11_Witness ==
    \E j \in JobIds :
        /\ jobs[j].oppJobInfo # <<>>
        /\ jobs[j].oppJobInfo[1].numberRecordsProcessed = MaxRecords
        /\ jobs[j].oppJobInfo[1].numberRecordsFailed = MaxRecords
        /\ "getFailedResults" \in Ops(j)
        /\ jobs[j].pc = "done"

\* the elements of a sequence
Range(seq) == {seq[n] : n \in 1..Len(seq)}

\* C12: the child table of a data/create job has exactly FIXED_OLI_COUNT
\* rows for each parent id the success-results fetch returned and no row for
\* any other id, and the PricebookEntryId and Product2Id of each row are
\* those of one usable entry of the catalog query.
C12_ChildRows ==
    \A j \in JobIds : \A t \in ChildTables(j) :
        /\ jobs[j].oppIds # <<>>
        /\ \A id \in Range(jobs[j].oppIds) :
              /\ id # 0
              /\ Cardinality({n \in 1..Len(t.rows) : t.rows[n].OpportunityId = id})
                    = FIXED_OLI_COUNT
        /\ \A n \in 1..Len(t.rows) :
              /\ t.rows[n].OpportunityId \in Range(jobs[j].oppIds)
              /\ \E e \in Range(jobs[j].pbes) :
                    /\ e.Id # 0
                    /\ e.Product2Id # 0
                    /\ t.rows[n].PricebookEntryId = e.Id
                    /\ t.rows[n].Product2Id = e.Product2Id

C12_Witness ==
    \E j \in JobIds : \E t \in ChildTables(j) :
        /\ jobs[j].msg.count = <<2>>
        /\ Len(jobs[j].oppIds) = 2
        /\ Len(t.rows) = 4
        /\ t.rows[1].PricebookEntryId # t.rows[2].PricebookEntryId

\* the status fetches on bulk job ref that invocation j made before its call n
FetchesBefore(j, ref, n) ==
    {m \in 1..(n - 1) : jobs[j].calls[m].op = "getInfo" /\ jobs[j].calls[m].arg.ref = ref}

\* the last of a non-empty set of call numbers
Last(ns) == CHOOSE m \in ns : \A k \in ns : k <= m

\* states of a bulk job that is not over
NonTerminal == {"Open", "UploadComplete", "InProgress", "Unrecognised"}

\* C13: when a data/create job submits its child table, every earlier call
\* has been answered, the last status fetch on its parent bulk job reported
\* JobComplete, and the fetches before that one reported states that are not
\* terminal.
C13_ChildAfterParentComplete ==
    \A j \in JobIds : \A n \in 1..Len(jobs[j].calls) :
        (jobs[j].calls[n].op = "ingest"
            /\ jobs[j].calls[n].arg.object = "OpportunityLineItem") =>
            LET fetches == FetchesBefore(j, RefOf(j, "opp"), n)
            IN  /\ Len(jobs[j].replies) >= n - 1
                /\ fetches # {}
                /\ jobs[j].replies[Last(fetches)] = "JobComplete"
                /\ \A m \in fetches \ {Last(fetches)} : jobs[j].replies[m] \in NonTerminal

C13_Witness ==
    \E j \in JobIds : \E n \in 1..Len(jobs[j].calls) :
        /\ jobs[j].calls[n].op = "ingest"
        /\ jobs[j].calls[n].arg.object = "OpportunityLineItem"
        /\ \E m \in FetchesBefore(j, RefOf(j, "opp"), n) : jobs[j].replies[m] = "InProgress"

\* text holds part as a run of consecutive pieces
Contains(text, part) ==
    \E i \in 1..(Len(text) - Len(part) + 1) : SubSeq(text, i, i + Len(part) - 1) = part

\* the calls of invocation j with operation op on bulk job ref
CallsOn(j, op, ref) ==
    {m \in 1..Len(jobs[j].calls) : jobs[j].calls[m].op = op /\ jobs[j].calls[m].arg.ref = ref}

\* the poll of invocation j ran out of its budget
TimedOut(j) == "pollTimeout" \in jobs[j].log

\* C14: no status fetch is issued once BULK_API_TIMEOUT has passed, so a
\* bulk job is fetched at most BULK_API_TIMEOUT / BULK_API_POLL_INTERVAL
\* times; a job whose last status fetch reported a state that is not
\* terminal ends only by the timeout; and when the poll times out, every
\* fetch on that bulk job reported a state that is not terminal, the error
\* thrown is the timeout error carrying the reference id, and the job ends
\* with that fetch as its last call: no result fetch on that reference and
\* no child table.
C14_TimeoutAbortsJob ==
    \A j \in JobIds :
        /\ jobs[j].pc = "poll" => jobs[j].elapsed < BULK_API_TIMEOUT
        /\ Cardinality(CallsOn(j, "getInfo", jobs[j].ref))
              <= BULK_API_TIMEOUT \div BULK_API_POLL_INTERVAL
        /\ (/\ jobs[j].pc = "done"
            /\ jobs[j].replies # <<>>
            /\ jobs[j].calls[Len(jobs[j].calls)].op = "getInfo"
            /\ jobs[j].replies[Len(jobs[j].replies)] \in NonTerminal) => TimedOut(j)
        /\ TimedOut(j) =>
              /\ jobs[j].pc = "done"
              /\ jobs[j].pollError = <<TimeoutErrorText(jobs[j].ref)>>
              /\ Contains(jobs[j].pollError[1], Digits(jobs[j].ref))
              /\ "dataError" \in jobs[j].log
              /\ Len(jobs[j].calls) \in CallsOn(j, "getInfo", jobs[j].ref)
              /\ \A m \in CallsOn(j, "getInfo", jobs[j].ref) : jobs[j].replies[m] \in NonTerminal
              /\ CallsOn(j, "getFailedResults", jobs[j].ref) = {}
              /\ CallsOn(j, "getSuccessfulResults", jobs[j].ref) = {}
              /\ jobs[j].stage = "opp" => ChildTables(j) = {}

C14_Witness ==
    \E j \in JobIds :
        /\ TimedOut(j)
        /\ jobs[j].stage = "opp"
        /\ Cardinality(CallsOn(j, "getInfo", jobs[j].ref))
              = BULK_API_TIMEOUT \div BULK_API_POLL_INTERVAL

\* the status fetches of invocation j that reported Failed or Aborted
FailedFetches(j) ==
    {m \in 1..Len(jobs[j].replies) :
        jobs[j].calls[m].op = "getInfo" /\ jobs[j].replies[m] \in {"Failed", "Aborted"}}

\* after a fetch reported Failed or Aborted, invocation j made no other call
\* and ended in the handler's catch: no result fetch, no child table
AbortedByFailure(j) ==
    /\ FailedFetches(j) = {Len(jobs[j].calls)}
    /\ jobs[j].pc = "done"
    /\ jobs[j].pollError # <<>>
    /\ "dataError" \in jobs[j].log
    /\ CallsOn(j, "getFailedResults", jobs[j].ref) = {}
    /\ CallsOn(j, "getSuccessfulResults", jobs[j].ref) = {}
    /\ jobs[j].stage = "opp" => ChildTables(j) = {}

\* C15 as stated: when a status fetch reports Failed or Aborted, polling
\* stops, the job is aborted without result fetch or child stage, and the
\* error raised includes the error message the store reported.
C15_FailureErrorHasMessage ==
    \A j \in JobIds :
        (FailedFetches(j) # {} /\ jobs[j].errorMessage # None) =>
            /\ AbortedByFailure(j)
            /\ Contains(jobs[j].pollError[1], <<jobs[j].errorMessage>>)

\* C15 amended: when a status fetch reports Failed or Aborted, polling
\* stops, the job is aborted without result fetch or child stage, the error
\* raised carries the reference id and the reported state, and the error
\* message the store reported is written to the log.
C15_FailureErrorHasState ==
    \A j \in JobIds :
        FailedFetches(j) # {} =>
            /\ AbortedByFailure(j)
            /\ jobs[j].pollError = <<FailedErrorText(jobs[j].ref, jobs[j].lastState)>>
            /\ Contains(jobs[j].pollError[1], Digits(jobs[j].ref))
            /\ Contains(jobs[j].pollError[1], <<jobs[j].replies[Len(jobs[j].replies)]>>)
            /\ \E n \in 1..Len(jobs[j].pollLog) :
                    Contains(jobs[j].pollLog[n], <<jobs[j].errorMessage>>)

C15_Witness ==
    \E j \in JobIds :
        /\ FailedFetches(j) # {}
        /\ jobs[j].lastState = "Aborted"
        /\ jobs[j].errorMessage = "m2"
        /\ jobs[j].stage = "opp"
        /\ jobs[j].pc = "done"

\* the status fetches of invocation j that threw or came back empty
BrokenFetches(j) ==
    {m \in 1..Len(jobs[j].replies) :
        jobs[j].calls[m].op = "getInfo" /\ jobs[j].replies[m] \in {"throw", "undefined"}}

\* C16: a status fetch that throws or returns nothing is the last call of
\* its job: the error is logged by the poll loop, reaches the catch of
\* handleDataMessage unchanged, and the job ends without another fetch.
C16_PollErrorIsFatal ==
    \A j \in JobIds :
        BrokenFetches(j) # {} =>
            /\ BrokenFetches(j) = {Len(jobs[j].calls)}
            /\ jobs[j].pc = "done"
            /\ jobs[j].pollError =
                    <<IF jobs[j].replies[Len(jobs[j].replies)] = "throw"
                      THEN <<"store error">> ELSE UndefinedText(jobs[j].ref)>>
            /\ {"pollError", "dataError"} \subseteq jobs[j].log
            /\ jobs[j].stage = "opp" => ChildTables(j) = {}

C16_Witness ==
    \E j \in JobIds :
        /\ BrokenFetches(j) # {}
        /\ jobs[j].replies[Len(jobs[j].replies)] = "throw"
        /\ jobs[j].replies[Len(jobs[j].replies) - 1] = "InProgress"
        /\ jobs[j].pc = "done"

\* C17: getFailedResults and getSuccessfulResults are called on a bulk job
\* only when the last status fetch on that same job reported JobComplete,
\* all fetches before it having reported states that are not terminal.
C17_HarvestOnlyFromComplete ==
    \A j \in JobIds : \A n \in 1..Len(jobs[j].calls) :
        jobs[j].calls[n].op \in {"getFailedResults", "getSuccessfulResults"} =>
            LET fetches == FetchesBefore(j, jobs[j].calls[n].arg.ref, n)
            IN  /\ fetches # {}
                /\ jobs[j].replies[Last(fetches)] = "JobComplete"
                /\ \A m \in fetches \ {Last(fetches)} : jobs[j].replies[m] \in NonTerminal

C17_Witness ==
    \E j \in JobIds :
        /\ CallsOn(j, "getFailedResults", RefOf(j, "opp")) # {}
        /\ CallsOn(j, "getSuccessfulResults", RefOf(j, "opp")) # {}
        /\ CallsOn(j, "getFailedResults", RefOf(j, "oli")) # {}

\* the queries of invocation j that returned no record
EmptyQueries(j) ==
    {m \in 1..Len(jobs[j].replies) :
        jobs[j].calls[m].op = "query" /\ jobs[j].replies[m] = "none"}

\* invocation j runs the create operation of the data handler
IsCreate(j) == jobs[j].handler = "data" /\ jobs[j].msg.operation = "create"

\* C18: in a data/create job a prerequisite query (Account, Pricebook2,
\* PricebookEntry) that returns no record is the job's last call: the job
\* ends in the handler's catch, nothing is submitted, and each query was
\* issued once.
C18_PrerequisiteMissingAborts ==
    \A j \in JobIds :
        (IsCreate(j) /\ EmptyQueries(j) # {}) =>
            /\ EmptyQueries(j) = {Len(jobs[j].calls)}
            /\ jobs[j].pc = "done"
            /\ "dataError" \in jobs[j].log
            /\ Submissions(j) = {}
            /\ \A m, n \in 1..Len(jobs[j].calls) :
                    jobs[j].calls[m].arg.text = jobs[j].calls[n].arg.text => m = n

C18_Witness ==
    \E j \in JobIds :
        /\ IsCreate(j)
        /\ Len(jobs[j].calls) = 3
        /\ jobs[j].calls[3].arg.text = "PricebookEntry"
        /\ EmptyQueries(j) = {3}
        /\ jobs[j].pc = "done"

\* invocation j runs the delete operation of the data handler
IsDelete(j) == jobs[j].handler = "data" /\ jobs[j].msg.operation = "delete"

\* C19: a data/delete job whose candidate query returns no record ends
\* there and normally: the query is its only call (no table submitted, no
\* status fetched), no error is logged or thrown, and the invocation
\* returns.
C19_NothingToDelete ==
    \A j \in JobIds :
        (IsDelete(j) /\ EmptyQueries(j) # {}) =>
            /\ Len(jobs[j].calls) = 1
            /\ jobs[j].pc = "done"
            /\ jobs[j].log = {"nothingToDelete"}
            /\ jobs[j].log \cap ErrorTags = {}
            /\ jobs[j].pollError = <<>>

C19_Witness ==
    \E j \in JobIds :
        /\ IsDelete(j)
        /\ EmptyQueries(j) = {1}
        /\ jobs[j].pc = "done"

\* invocation j of the quote handler has walked its parents
Registered(j) ==
    /\ jobs[j].handler = "quote"
    /\ \/ "commitUnitOfWork" \in Ops(j)
       \/ "noQuotes" \in jobs[j].log

\* C20: once a quote job has walked the parents of its query result, the
\* unit of work holds no create (Quote or QuoteLineItem) and the quoteRefs
\* map no entry for a parent without child lines, while each parent of the
\* same result that has lines and a valid close date has its Quote
\* registered.
C20_ParentsWithoutLinesSkipped ==
    \A j \in JobIds :
        Registered(j) =>
            \A p \in Range(jobs[j].pages) :
                IF Len(p.lines) = 0
                THEN /\ \A u \in Range(jobs[j].uow) : u.oppId # p.id
                     /\ \A q \in Range(jobs[j].quoteRefs) : q.key # p.id
                     /\ "noLineItems" \in jobs[j].log
                ELSE p.closeDateOk =>
                        \E u \in Range(jobs[j].uow) : u.type = "Quote" /\ u.oppId = p.id

C20_Witness ==
    \E j \in JobIds :
        /\ "commitUnitOfWork" \in Ops(j)
        /\ Len(jobs[j].pages) = 4
        /\ Len(jobs[j].pages[1].lines) = 0
        /\ Len(jobs[j].pages[4].lines) = 0
        /\ Len(jobs[j].quoteRefs) = 2
        /\ Len(jobs[j].uow) = 5

\* the call with which invocation j started to query its opportunities
\* (0 when it has not)
OppQuery(j) ==
    LET ns == {n \in 1..Len(jobs[j].calls) :
                  jobs[j].calls[n].op = "query"
                  /\ jobs[j].calls[n].arg.text = jobs[j].msg.soqlWhereClause}
    IN  IF ns = {} THEN 0 ELSE Last(ns)

\* the query of invocation j for its opportunities is over and every page
\* of it came back without a record
NoParentMatched(j) ==
    /\ jobs[j].handler = "quote"
    /\ OppQuery(j) # 0
    /\ jobs[j].pc # "quoteOpps"
    /\ \A n \in OppQuery(j)..Len(jobs[j].calls) :
          jobs[j].calls[n].op \in {"query", "queryMore"} => jobs[j].replies[n] = "none"

\* the commits of invocation j
Commits(j) == {n \in 1..Len(jobs[j].calls) : jobs[j].calls[n].op = "commitUnitOfWork"}

\* C21: a quote job whose query matches no parent record registers nothing
\* in a unit of work and never commits: it logs the warning and returns.
C21_NoParentsNoCommit ==
    \A j \in JobIds :
        NoParentMatched(j) =>
            /\ jobs[j].uow = <<>>
            /\ jobs[j].quoteRefs = <<>>
            /\ Commits(j) = {}
            /\ jobs[j].pc = "done"
            /\ jobs[j].log = {"noOpportunities"}

C21_Witness ==
    \E j \in JobIds :
        /\ NoParentMatched(j)
        /\ Len(jobs[j].calls) = OppQuery(j) + 1

\* the Quote creates in the unit of work of invocation j
QuoteCreates(j) == {n \in 1..Len(jobs[j].uow) : jobs[j].uow[n].type = "Quote"}

\* C22: a quote job commits at most once; what it commits is the whole
\* unit of work, with the creates of every parent of the invocation, and
\* nothing is registered afterwards; and a job that registered a Quote has
\* committed exactly once.
C22_OneCommitPerInvocation ==
    \A j \in JobIds :
        /\ Cardinality(Commits(j)) <= 1
        /\ \A n \in Commits(j) :
              /\ n = Len(jobs[j].calls)
              /\ jobs[j].calls[n].arg.rows = jobs[j].uow
              /\ \A p \in Range(jobs[j].pages) :
                    (Len(p.lines) > 0 /\ p.closeDateOk) =>
                        \E u \in Range(jobs[j].calls[n].arg.rows) :
                            u.type = "Quote" /\ u.oppId = p.id
        /\ QuoteCreates(j) # {} => Cardinality(Commits(j)) = 1

C22_Witness ==
    \E j \in JobIds :
        /\ Cardinality(Commits(j)) = 1
        /\ Cardinality(QuoteCreates(j)) = 2
        /\ "throw" \in Range(jobs[j].replies)
        /\ jobs[j].pc = "done"

\* the parent references of invocation j whose commit outcome has an id
Succeeded(j) ==
    {n \in 1..Len(jobs[j].quoteRefs) :
        \E e \in Range(jobs[j].commitResult) :
            e.ref = jobs[j].quoteRefs[n].val /\ e.id # 0}

\* invocation j of the quote handler has tallied the outcome of its commit
Tallied(j) == jobs[j].handler = "quote" /\ "completed" \in jobs[j].log

\* C23: after the commit each parent reference of quoteRefs is counted
\* once: as a success when the outcome stored under that reference has an
\* id, else as a failure, whatever the outcomes of the other references and
\* the place of its entry in the commit result.
C23_OutcomePerReference ==
    \A j \in JobIds :
        Tallied(j) =>
            /\ jobs[j].successCount = Cardinality(Succeeded(j))
            /\ jobs[j].failureCount = Len(jobs[j].quoteRefs) - Cardinality(Succeeded(j))

C23_Witness ==
    \E j \in JobIds :
        /\ Tallied(j)
        /\ jobs[j].successCount = 1
        /\ jobs[j].failureCount = 1
        /\ jobs[j].commitResult[1].ref > jobs[j].commitResult[2].ref
        /\ jobs[j].commitResult[1].id # 0

\* region values: the mapped ones, one that is not mapped, and none
Regions == {"NAMER", "EMEA", "APAC", "LATAM", "", None}

\* the QuoteLineItem creates registered under the Quote with reference ref
LineCreates(j, ref) ==
    LET UnderRef(u) == u.type = "QuoteLineItem" /\ u.parent = ref
    IN  SelectSeq(jobs[j].uow, UnderRef)

Failing(p) ==
    /\ Len(p.lines) > 0
    /\ \/ ~p.closeDateOk
       \/ \E k \in 1..Len(p.lines) : ~p.lines[k].ok

\* parent p has lines and nothing about it raises an exception
Sound(p) ==
    /\ Len(p.lines) > 0
    /\ p.closeDateOk
    /\ \A k \in 1..Len(p.lines) : p.lines[k].ok

\* C25: when preparing a parent of a quote job raised an exception, the
\* exception is logged and the walk goes on: every other parent of the
\* result that is sound, before or after the failing one, has its Quote
\* and all its lines registered, and the unit of work is committed once
\* when a Quote was registered.
C25_ParentErrorKeepsBatch ==
    \A j \in JobIds :
        Registered(j) =>
            \A n \in 1..Len(jobs[j].pages) :
                Failing(jobs[j].pages[n]) =>
                    /\ "parentError" \in jobs[j].log
                    /\ \A m \in 1..Len(jobs[j].pages) :
                          Sound(jobs[j].pages[m]) =>
                              \E q \in QuoteCreates(j) :
                                  /\ jobs[j].uow[q].oppId = jobs[j].pages[m].id
                                  /\ Len(LineCreates(j, jobs[j].uow[q].ref))
                                        = Len(jobs[j].pages[m].lines)
                    /\ QuoteCreates(j) # {} => Cardinality(Commits(j)) = 1
                    /\ QuoteCreates(j) = {} => "noQuotes" \in jobs[j].log

C25_Witness ==
    \E j \in JobIds :
        /\ Registered(j)
        /\ Len(jobs[j].pages) = 2
        /\ ~jobs[j].pages[1].closeDateOk
        /\ Sound(jobs[j].pages[2])
        /\ Cardinality(Commits(j)) = 1
        /\ jobs[j].pc = "done"

\* C26: an invocation of the quote handler whose envelope has no filter
\* (absent or the empty string) issues no call to the record store, registers
\* no create, commits nothing and logs no error: it warns and returns.
C26_NoFilterIsNoOp ==
    \A j \in JobIds :
        (jobs[j].handler = "quote" /\ NoFilter(jobs[j].msg.soqlWhereClause)) =>
            /\ jobs[j].calls = <<>>
            /\ jobs[j].uow = <<>>
            /\ jobs[j].quoteRefs = <<>>
            /\ jobs[j].log \cap ErrorTags = {}
            /\ "noWhereClause" \in jobs[j].log
            /\ jobs[j].pc = "done"

C26_Witness ==
    \E j \in JobIds :
        /\ jobs[j].handler = "quote"
        /\ jobs[j].msg.soqlWhereClause = ""
        /\ jobs[j].pc = "done"

RECURSIVE Concat(_)
\* the records of a sequence of pages, in page order
Concat(ps) == IF ps = <<>> THEN <<>> ELSE Head(ps).records \o Concat(Tail(ps))

\* the pages invocation j was returned for its calls lo..hi
PagesOf(j, lo, hi) ==
    LET Within(p) == p.call >= lo /\ p.call <= hi
    IN  SelectSeq(jobs[j].fetched, Within)

\* paging stops at the first page that reports done, and not before
DoneOnlyLast(ps, over) ==
    /\ \A k \in 1..(Len(ps) - 1) : ~ps[k].done
    /\ over => (ps # <<>> /\ ps[Len(ps)].done)

\* C27: what queryAll holds is the concatenation, in page order, of the
\* records of every page returned for its query; no page before the last
\* reported done, and once queryAll has returned without an exception the
\* last page reported done. This holds for the pricebook query and for the
\* opportunity query of a quote job.
C27_QueryAllConcatenates ==
    \A j \in JobIds :
        jobs[j].handler = "quote" =>
            LET from == OppQuery(j)
                last == Len(jobs[j].calls)
                book == PagesOf(j, 1, IF from = 0 THEN last ELSE from - 1)
                opps == PagesOf(j, from, last)
                ok == "queryAllError" \notin jobs[j].log
            IN  /\ from = 0 => jobs[j].pages = Concat(book)
                /\ from > 0 => jobs[j].pages = Concat(opps)
                /\ DoneOnlyLast(book, ok /\ jobs[j].pc # "quotePricebook"
                                        /\ jobs[j].calls # <<>>)
                /\ from > 0 => DoneOnlyLast(opps, ok /\ jobs[j].pc # "quoteOpps")

C27_Witness ==
    \E j \in JobIds :
        /\ jobs[j].handler = "quote"
        /\ jobs[j].pc = "done"
        /\ OppQuery(j) > 0
        /\ Len(PagesOf(j, OppQuery(j), Len(jobs[j].calls))) = 2
        /\ Len(jobs[j].pages) = 4
        /\ "commitUnitOfWork" \in Ops(j)

\* invocation j of the data handler was aborted by an error of the record
\* store: an error raised while a bulk job was polled, a query or a
\* submission that threw, or a submission answered with an error
ExternalAbort(j) ==
    /\ jobs[j].handler = "data"
    /\ "dataError" \in jobs[j].log
    /\ jobs[j].replies # <<>>
    /\ \/ jobs[j].pollError # <<>>
       \/ jobs[j].replies[Len(jobs[j].replies)] \in {"throw", "error", "unexpected"}

\* the reference id of the bulk job of invocation j is in the error thrown
\* or in a line of the error log of its poll
CarriesReference(j) ==
    /\ jobs[j].ref # 0
    /\ \E text \in Range(jobs[j].pollLog) \cup Range(jobs[j].pollError) :
          Contains(text, Digits(jobs[j].ref))

\* C28 as stated: every error of the record store that aborts a data job
\* (poll timeout, submission error, query transport failure, poll transport
\* error) carries the reference id of the bulk job.
C28_ErrorsCarryReference ==
    \A j \in JobIds : ExternalAbort(j) => CarriesReference(j)

\* C28, amended: an error of the record store that aborts a data job carries
\* the reference id of the bulk job exactly when it was raised while that
\* bulk job was polled (timeout, Failed or Aborted state, status fetch that
\* threw or returned nothing); a query or a submission that failed aborts
\* the job with an error that names no bulk job.
C28_PollErrorsCarryReference ==
    \A j \in JobIds :
        ExternalAbort(j) =>
            /\ jobs[j].pc = "done"
            /\ jobs[j].pollError # <<>> <=> CarriesReference(j)
            /\ jobs[j].pollError # <<>> <=>
                    jobs[j].calls[Len(jobs[j].calls)].op = "getInfo"
            /\ jobs[j].pollError # <<>> =>
                    jobs[j].calls[Len(jobs[j].calls)].arg.ref = jobs[j].ref

C28_Witness ==
    \E j \in JobIds :
        /\ ExternalAbort(j)
        /\ jobs[j].pollError = <<(<<"store error">>)>>
        /\ jobs[j].stage = "oli"
        /\ CarriesReference(j)

\* C29: the parent table a data/create job submits has as many rows as the
\* count of its envelope, DefaultCount rows when the envelope has no count,
\* and never fewer than one row, whatever the count field holds.
C29_AtLeastOneParentRow ==
    \A j \in JobIds : \A t \in ParentTables(j) :
        LET rows == t.rows
            count == jobs[j].msg.count
        IN  /\ Len(rows) >= 1
            /\ count = <<>> => Len(rows) = DefaultCount
            /\ (count # <<>> /\ count[1] >= 1) => Len(rows) = count[1]

\* the envelopes published for requests on the given route
PublishedFor(route) ==
    {p \in 1..Len(published) : published[p].req.route = route}

Stages == {"opp", "oli", "del"}

\* invocation j, of a running worker, is in a poll loop (a worker process
\* that has exited runs no loop)
Polling(j) ==
    /\ j \in JobIds
    /\ jobs[j].pc \in {"poll", "sleep"}
    /\ wstate[jobs[j].w] = "subscribed"

\* C31: whatever states the store reports (never terminal and unrecognised
\* ones included), if every status fetch is answered the poll loop an
\* invocation is in ends; no status fetch is awaited once BULK_API_TIMEOUT
\* has passed since the poll began, and a bulk job is fetched at most
\* BULK_API_TIMEOUT / BULK_API_POLL_INTERVAL (60) times.
C31_PollLoopEnds ==
    /\ [](\A j \in JobIds :
            /\ jobs[j].pc = "poll" => jobs[j].elapsed < BULK_API_TIMEOUT
            /\ \A stage \in Stages :
                  Cardinality(CallsOn(j, "getInfo", RefOf(j, stage)))
                      <= BULK_API_TIMEOUT \div BULK_API_POLL_INTERVAL)
    /\ \A j \in 1..MaxJobs : Polling(j) ~> ~Polling(j)

C31_Witness ==
    \E j \in JobIds :
        /\ Cardinality(CallsOn(j, "getInfo", jobs[j].ref))
              = BULK_API_TIMEOUT \div BULK_API_POLL_INTERVAL
        /\ jobs[j].replies[Len(jobs[j].replies)] = "JobComplete"
        /\ jobs[j].replies[Len(jobs[j].replies) - 1] = "InProgress"
        /\ ~TimedOut(j)
        /\ jobs[j].pc = "done"

\* the fetches of failed rows of invocation j that threw
BrokenDiagnostics(j) ==
    {n \in 1..Len(jobs[j].replies) :
        jobs[j].calls[n].op = "getFailedResults" /\ jobs[j].replies[n] = "throw"}

\* C32: when the fetch of the failed rows of a completed bulk job throws,
\* the error is logged and the job goes on as if the fetch had succeeded:
\* the handler's catch is not reached by it; after the parent stage of a
\* data/create job with rows that succeeded the successful rows are fetched
\* next (the child stage is attempted), and after a child or delete stage
\* the job completes.
C32_DiagnosticsBestEffort ==
    \A j \in JobIds : \A n \in BrokenDiagnostics(j) :
        LET ref == jobs[j].calls[n].arg.ref
            parent == ref = RefOf(j, "opp") /\ IsCreate(j)
            some == /\ jobs[j].oppJobInfo # <<>>
                    /\ jobs[j].oppJobInfo[1].numberRecordsProcessed
                          > jobs[j].oppJobInfo[1].numberRecordsFailed
        IN  /\ "failedResultsError" \in jobs[j].log
            /\ n = Len(jobs[j].calls) =>
                  /\ jobs[j].pc = "done"
                  /\ "dataError" \notin jobs[j].log
                  /\ ~(parent /\ some)
                  /\ ~parent => "completed" \in jobs[j].log
            /\ (parent /\ some) =>
                  /\ Len(jobs[j].calls) > n
                  /\ jobs[j].calls[n + 1].op = "getSuccessfulResults"
                  /\ jobs[j].calls[n + 1].arg.ref = ref
            /\ "dataError" \in jobs[j].log =>
                  jobs[j].calls[Len(jobs[j].calls)].op \notin {"getFailedResults"}

C32_Witness ==
    \E j \in JobIds : \E n \in BrokenDiagnostics(j) :
        /\ jobs[j].calls[n].arg.ref = RefOf(j, "opp")
        /\ ChildTables(j) # {}
        /\ jobs[j].pc = "done"
        /\ "completed" \in jobs[j].log

\* the submissions of invocation j that were answered with an inline error
\* or with a response that is no job reference
RefusedSubmissions(j) ==
    {n \in 1..Len(jobs[j].replies) :
        jobs[j].calls[n].op = "ingest" /\ jobs[j].replies[n] \in {"error", "unexpected"}}

\* the stage a submitted table belongs to
StageOf(table) ==
    CASE table.object = "OpportunityLineItem" -> "oli"
      [] table.operation = "hardDelete" -> "del"
      [] OTHER -> "opp"

\* no status fetch and no result fetch was made on bulk job ref
Untouched(j, ref) ==
    \A op \in {"getInfo", "getFailedResults", "getSuccessfulResults"} : CallsOn(j, op, ref) = {}

\* every status fetch of invocation j is on a reference a submission of j
\* returned before
PolledAreSubmitted(j) ==
    \A m \in 1..Len(jobs[j].calls) :
        jobs[j].calls[m].op = "getInfo" =>
            \E n \in 1..(m - 1) :
                /\ jobs[j].calls[n].op = "ingest"
                /\ jobs[j].replies[n] = "ref"
                /\ jobs[j].calls[m].arg.ref = RefOf(j, StageOf(jobs[j].calls[n].arg))

\* C33 as stated: in each of the three stages a submission answered with an
\* inline error or without a job reference ends its stage with a fatal
\* error (the job is aborted in the handler's catch), with no status poll
\* and no result fetch for it.
C33_RefusedSubmissionIsFatal ==
    \A j \in JobIds :
        /\ PolledAreSubmitted(j)
        /\ \A n \in RefusedSubmissions(j) :
              /\ n = Len(jobs[j].calls)
              /\ jobs[j].pc = "done"
              /\ "dataError" \in jobs[j].log
              /\ Untouched(j, RefOf(j, StageOf(jobs[j].calls[n].arg)))

\* C33, amended: a submission answered with an inline error or without a
\* job reference is the last call of its job, and no status poll and no
\* result fetch is made for its stage; for the parent and the delete stage
\* the error is thrown and the job is aborted in the handler's catch, for
\* the child stage it is logged and the job ends as completed. A status
\* fetch is only made on a reference that a submission returned.
C33_RefusedSubmissionEndsStage ==
    \A j \in JobIds :
        /\ PolledAreSubmitted(j)
        /\ \A n \in RefusedSubmissions(j) :
              LET stage == StageOf(jobs[j].calls[n].arg)
              IN  /\ n = Len(jobs[j].calls)
                  /\ jobs[j].pc = "done"
                  /\ Untouched(j, RefOf(j, stage))
                  /\ stage \in {"opp", "del"} =>
                        /\ {"ingestFailed", "dataError"} \subseteq jobs[j].log
                        /\ "completed" \notin jobs[j].log
                  /\ stage = "oli" =>
                        /\ {"oliSubmitFailed", "completed"} \subseteq jobs[j].log
                        /\ "dataError" \notin jobs[j].log

C33_Witness ==
    \E j \in JobIds : \E n \in RefusedSubmissions(j) :
        /\ StageOf(jobs[j].calls[n].arg) = "oli"
        /\ jobs[j].replies[n] = "unexpected"
        /\ CallsOn(j, "getInfo", RefOf(j, "opp")) # {}
        /\ jobs[j].pc = "done"

\* the places of the query result of invocation j that hold parent p
Occurrences(j, p) == {m \in 1..Len(jobs[j].pages) : jobs[j].pages[m] = p}

\* C34: once a quote job has walked its parents, each parent with k >= 1
\* lines that was processed without an exception has one Quote create (per
\* place in the result) and k QuoteLineItem creates under it, all after the
\* Quote; every reference of the unit of work is used once, and every
\* QuoteLineItem has for QuoteId the reference of a Quote registered before
\* it for the same parent.
C34_LinesUnderOwnParent ==
    \A j \in JobIds :
        Registered(j) =>
            LET uow == jobs[j].uow
            IN  /\ \A a, b \in 1..Len(uow) : a # b => uow[a].ref # uow[b].ref
                /\ \A n \in 1..Len(uow) :
                      uow[n].type = "QuoteLineItem" =>
                          \E q \in QuoteCreates(j) :
                              /\ q < n
                              /\ uow[q].ref = uow[n].parent
                              /\ uow[q].oppId = uow[n].oppId
                /\ \A p \in Range(jobs[j].pages) :
                      Sound(p) =>
                          /\ Cardinality({q \in QuoteCreates(j) : uow[q].oppId = p.id})
                                = Cardinality(Occurrences(j, p))
                          /\ \A q \in QuoteCreates(j) :
                                uow[q].oppId = p.id =>
                                    Len(LineCreates(j, uow[q].ref)) = Len(p.lines)

C34_Witness ==
    \E j \in JobIds :
        /\ Registered(j)
        /\ Cardinality(QuoteCreates(j)) = 2
        /\ \E q \in QuoteCreates(j) :
              q > 1 /\ Len(LineCreates(j, jobs[j].uow[q].ref)) = 2
        /\ jobs[j].pc = "done"

\* C35: a parent whose processing raised an exception is skipped entirely:
\* once the parents are walked, the unit of work holds no create for it
\* (Quote or QuoteLineItem) and the quoteRefs map, from which the outcomes
\* are tallied, has no entry for it; also when the exception was raised
\* while one of its lines was registered.
C35_FailedParentSkipped ==
    \A j \in JobIds :
        Registered(j) =>
            \A p \in Range(jobs[j].pages) :
                Failing(p) =>
                    /\ \A u \in Range(jobs[j].uow) : u.oppId # p.id
                    /\ \A q \in Range(jobs[j].quoteRefs) : q.key # p.id

\* the hard-delete tables invocation j submitted
DeleteTables(j) ==
    {jobs[j].calls[n].arg : n \in
        {m \in 1..Len(jobs[j].calls) :
            /\ jobs[j].calls[m].op = "ingest"
            /\ jobs[j].calls[m].arg.operation = "hardDelete"}}

\* C36: the hard-delete table of a data/delete job has one row, holding an
\* Id only, for every record its candidate query matched, on whatever page
\* of the result the record is, and at most MAX_DELETE_QUERY rows.
C36_DeleteFollowsPages ==
    \A j \in JobIds : \A t \in DeleteTables(j) :
        /\ t.columns = <<"Id">>
        /\ Len(t.rows) <= MAX_DELETE_QUERY
        /\ Len(t.rows) = Min(jobs[j].matched, MAX_DELETE_QUERY)

\* the Quote creates of invocation j whose commit outcome has an id
CreatedQuotes(j) ==
    {q \in QuoteCreates(j) :
        \E e \in Range(jobs[j].commitResult) : e.ref = jobs[j].uow[q].ref /\ e.id # 0}

\* C37: when a quote job has tallied the outcome of its commit,
\* successCount + failureCount is the number of Quote creates of the
\* committed unit of work; successCount is the number of Quote creates whose
\* outcome has an id, whatever the outcomes of the QuoteLineItem creates.
C37_TallyCountsParents ==
    \A j \in JobIds :
        Tallied(j) =>
            /\ \A n \in Commits(j) : jobs[j].calls[n].arg.rows = jobs[j].uow
            /\ jobs[j].successCount + jobs[j].failureCount = Cardinality(QuoteCreates(j))
            /\ jobs[j].successCount = Cardinality(CreatedQuotes(j))

C37_Witness ==
    \E j \in JobIds :
        /\ Tallied(j)
        /\ jobs[j].successCount = 2
        /\ jobs[j].failureCount = 0
        /\ \E e \in Range(jobs[j].commitResult) :
              /\ e.id = 0
              /\ \E u \in Range(jobs[j].uow) : u.ref = e.ref /\ u.type = "QuoteLineItem"

C39_DeliveryNeverRejects ==
    \A j \in JobIds :
        /\ jobs[j].pc # "rejected"
        /\ wstate[jobs[j].w] # "exited"
        /\ ~IsEnvelope(jobs[j].msg) =>
              /\ jobs[j].handler = None
              /\ ~jobs[j].client.present
              /\ jobs[j].calls = <<>>

====
